---- MODULE Spec2Model ----
(***************************************************************************)
(* A model of the yourate-api handlers: POST/GET /ratings (src/src/        *)
(* ratings.js), GET /profile (src/src/creatorProfile.js) and               *)
(* GET /top-creators (src/unnamed/part_004, topCreators.js), over the one  *)
(* DynamoDB table declared in src/index.js (hash key channelId, range key  *)
(* timestamp).                                                             *)
(*                                                                         *)
(* Strings are sequences of one-character strings, so that split,          *)
(* includes, endsWith, toLowerCase and the e-mail regular expression are   *)
(* computed character by character.  Numbers are held in tenths (3.5 is    *)
(* 35), which is exact for every rating the model submits.                 *)
(***************************************************************************)
EXTENDS Integers, Sequences, FiniteSets, TLC

(***************************************************************************)
(* JavaScript values as they come out of JSON.parse / the API event.       *)
(***************************************************************************)
Undef == [t |-> "undefined", n |-> 0, s |-> <<>>]
Null == [t |-> "null", n |-> 0, s |-> <<>>]
Num(tenths) == [t |-> "number", n |-> tenths, s |-> <<>>]
Str(chars) == [t |-> "string", n |-> 0, s |-> chars]

\* typeof v
TypeOf(v) == IF v.t = "null" THEN "object" ELSE v.t

\* ToBoolean(v): undefined, null, 0 and "" are falsy
Truthy(v) ==
    CASE v.t = "undefined" -> FALSE
      [] v.t = "null" -> FALSE
      [] v.t = "number" -> v.n # 0
      [] v.t = "string" -> v.s # <<>>
      [] OTHER -> TRUE

(***************************************************************************)
(* String helpers: the String.prototype methods the handlers call.         *)
(***************************************************************************)
UpperChars == <<"A", "B", "C", "D", "E", "F", "G", "H", "I", "J", "K", "L", "M",
                "N", "O", "P", "Q", "R", "S", "T", "U", "V", "W", "X", "Y", "Z">>
LowerChars == <<"a", "b", "c", "d", "e", "f", "g", "h", "i", "j", "k", "l", "m",
                "n", "o", "p", "q", "r", "s", "t", "u", "v", "w", "x", "y", "z">>
DigitChars == {"0", "1", "2", "3", "4", "5", "6", "7", "8", "9"}
SpaceChars == {" "}

LowerChar(c) ==
    IF \E i \in 1..Len(UpperChars) : UpperChars[i] = c
    THEN LowerChars[CHOOSE i \in 1..Len(UpperChars) : UpperChars[i] = c]
    ELSE c

\* s.toLowerCase()
ToLowerCase(s) == [i \in 1..Len(s) |-> LowerChar(s[i])]

\* s.includes(pat)
Includes(s, pat) ==
    \E i \in 0..(Len(s) - Len(pat)) : SubSeq(s, i + 1, i + Len(pat)) = pat

\* s.endsWith(suffix)
EndsWith(s, suffix) ==
    /\ Len(suffix) <= Len(s)
    /\ SubSeq(s, Len(s) - Len(suffix) + 1, Len(s)) = suffix

\* positions of character c in s
Positions(s, c) == {i \in 1..Len(s) : s[i] = c}

Min(S) == CHOOSE x \in S : \A y \in S : x <= y
Max(S) == CHOOSE x \in S : \A y \in S : x >= y

\* s.split(c)[0]: everything before the first c (the whole of s when there is none)
SplitFirst(s, c) ==
    IF Positions(s, c) = {} THEN s ELSE SubSeq(s, 1, Min(Positions(s, c)) - 1)

\* s.split(c)[1] for a string holding c: the piece between the first and the second c
SplitSecond(s, c) ==
    LET ps == Positions(s, c)
        p1 == Min(ps)
        rest == ps \ {p1}
        p2 == IF rest = {} THEN Len(s) + 1 ELSE Min(rest)
    IN SubSeq(s, p1 + 1, p2 - 1)

\* s.replace(/\d+/g, '')
RECURSIVE StripDigits(_)
StripDigits(s) ==
    IF s = <<>> THEN <<>>
    ELSE IF Head(s) \in DigitChars THEN StripDigits(Tail(s))
    ELSE <<Head(s)>> \o StripDigits(Tail(s))

\* /^[^\s@]+@[^\s@]+\.[^\s@]+$/.test(s): no white space, exactly one '@' with
\* something before it, and after it a '.' with something on both sides
EmailRegexTest(s) ==
    /\ \A i \in 1..Len(s) : s[i] \notin SpaceChars
    /\ Cardinality(Positions(s, "@")) = 1
    /\ LET at == Min(Positions(s, "@"))
       IN /\ at > 1
          /\ \E d \in Positions(s, ".") : d > at + 1 /\ d < Len(s)

(***************************************************************************)
(* The e-mail domain lists of handlePostRating, as found in the source.    *)
(***************************************************************************)
validConsumerDomains ==
    {<<"g", "m", "a", "i", "l", ".", "c", "o", "m">>,
    <<"y", "a", "h", "o", "o", ".", "c", "o", "m">>,
    <<"o", "u", "t", "l", "o", "o", "k", ".", "c", "o", "m">>,
    <<"h", "o", "t", "m", "a", "i", "l", ".", "c", "o", "m">>,
    <<"a", "o", "l", ".", "c", "o", "m">>,
    <<"i", "c", "l", "o", "u", "d", ".", "c", "o", "m">>,
    <<"p", "r", "o", "t", "o", "n", "m", "a", "i", "l", ".", "c", "o", "m">>,
    <<"p", "r", "o", "t", "o", "n", ".", "m", "e">>,
    <<"z", "o", "h", "o", ".", "c", "o", "m">>,
    <<"m", "a", "i", "l", ".", "c", "o", "m">>,
    <<"y", "a", "n", "d", "e", "x", ".", "c", "o", "m">>,
    <<"g", "m", "x", ".", "c", "o", "m">>,
    <<"g", "m", "x", ".", "n", "e", "t">>,
    <<"f", "a", "s", "t", "m", "a", "i", "l", ".", "c", "o", "m">>,
    <<"t", "u", "t", "a", "n", "o", "t", "a", ".", "c", "o", "m">>,
    <<"t", "u", "t", "a", "n", "o", "t", "a", ".", "d", "e">>,
    <<"l", "i", "v", "e", ".", "c", "o", "m">>,
    <<"m", "s", "n", ".", "c", "o", "m">>,
    <<"m", "e", ".", "c", "o", "m">>,
    <<"c", "o", "m", "c", "a", "s", "t", ".", "n", "e", "t">>,
    <<"v", "e", "r", "i", "z", "o", "n", ".", "n", "e", "t">>,
    <<"a", "t", "t", ".", "n", "e", "t">>,
    <<"m", "a", "i", "l", ".", "r", "u">>,
    <<"w", "e", "b", ".", "d", "e">>,
    <<"y", "a", "h", "o", "o", ".", "c", "o", ".", "u", "k">>,
    <<"y", "a", "h", "o", "o", ".", "f", "r">>,
    <<"y", "a", "h", "o", "o", ".", "c", "o", ".", "j", "p">>,
    <<"y", "a", "h", "o", "o", ".", "c", "o", "m", ".", "b", "r">>,
    <<"g", "o", "o", "g", "l", "e", "m", "a", "i", "l", ".", "c", "o", "m">>,
    <<"p", "m", ".", "m", "e">>,
    <<"a", "i", "m", ".", "c", "o", "m">>,
    <<"o", "u", "t", "l", "o", "o", "k", ".", "f", "r">>,
    <<"o", "u", "t", "l", "o", "o", "k", ".", "d", "e">>}

majorCompanyDomains ==
    {<<"a", "p", "p", "l", "e", ".", "c", "o", "m">>,
    <<"g", "o", "o", "g", "l", "e", ".", "c", "o", "m">>,
    <<"m", "i", "c", "r", "o", "s", "o", "f", "t", ".", "c", "o", "m">>,
    <<"a", "m", "a", "z", "o", "n", ".", "c", "o", "m">>,
    <<"f", "a", "c", "e", "b", "o", "o", "k", ".", "c", "o", "m">>,
    <<"m", "e", "t", "a", ".", "c", "o", "m">>,
    <<"i", "b", "m", ".", "c", "o", "m">>,
    <<"o", "r", "a", "c", "l", "e", ".", "c", "o", "m">>,
    <<"i", "n", "t", "e", "l", ".", "c", "o", "m">>,
    <<"c", "i", "s", "c", "o", ".", "c", "o", "m">>}

validEducationTLDs ==
    {<<".", "e", "d", "u">>,
    <<".", "a", "c", ".", "u", "k">>,
    <<".", "e", "d", "u", ".", "a", "u">>}

fakeDomainPatterns ==
    {<<"t", "e", "s", "t">>,
    <<"e", "x", "a", "m", "p", "l", "e">>,
    <<"f", "a", "k", "e">>,
    <<"l", "o", "l">>,
    <<"t", "e", "m", "p">>}

blockedDomains ==
    {<<"l", "o", "l", ".", "c", "o", "m">>,
    <<"l", "o", "l", "2", ".", "c", "o", "m">>,
    <<"l", "o", "l", "3", ".", "c", "o", "m">>,
    <<"e", "x", "a", "m", "p", "l", "e", ".", "c", "o", "m">>,
    <<"t", "e", "s", "t", ".", "c", "o", "m">>,
    <<"t", "e", "s", "t", "1", ".", "c", "o", "m">>,
    <<"t", "e", "s", "t", "2", ".", "c", "o", "m">>,
    <<"t", "e", "s", "t", "3", ".", "c", "o", "m">>,
    <<"t", "e", "s", "t", "4", ".", "c", "o", "m">>,
    <<"t", "e", "s", "t", "5", ".", "c", "o", "m">>,
    <<"f", "a", "k", "e", ".", "c", "o", "m">>,
    <<"m", "a", "i", "l", "i", "n", "a", "t", "o", "r", ".", "c", "o", "m">>,
    <<"t", "e", "m", "p", "m", "a", "i", "l", ".", "c", "o", "m">>,
    <<"t", "h", "r", "o", "w", "a", "w", "a", "y", "m", "a", "i", "l", ".", "c", "o", "m">>}

suspiciousPatterns ==
    {<<"t", "e", "m", "p">>,
    <<"f", "a", "k", "e">>,
    <<"t", "r", "a", "s", "h">>,
    <<"d", "i", "s", "p", "o", "s", "a", "b", "l", "e">>,
    <<"t", "h", "r", "o", "w", "a", "w", "a", "y">>,
    <<"m", "a", "i", "l", "i", "n", "a", "t", "o", "r">>,
    <<"g", "u", "e", "r", "r", "i", "l", "l", "a">>,
    <<"t", "e", "m", "p", "m", "a", "i", "l">>,
    <<"1", "0", "m", "i", "n", "u", "t", "e">>,
    <<"s", "h", "a", "r", "k", "l", "a", "s", "e", "r", "s">>}

\* email.split('@')[1].toLowerCase()
\* variant: the domain as typed, not lower-cased
EmailDomainAsTyped(email) == SplitSecond(email, "@")

EmailDomain(email) == ToLowerCase(SplitSecond(email, "@"))

\* the loop over fakeDomainPatterns: emailDomain.split('.')[0] includes the
\* pattern, or equals it once its digits are removed
MatchesFakePattern(emailDomain) ==
    LET domainWithoutTLD == SplitFirst(emailDomain, ".")
    IN \E pattern \in fakeDomainPatterns :
          \/ Includes(domainWithoutTLD, pattern)
          \/ StripDigits(domainWithoutTLD) = pattern

MatchesSuspiciousPattern(emailDomain) ==
    \E pattern \in suspiciousPatterns : Includes(emailDomain, pattern)

isAllowedConsumerDomain(emailDomain) == emailDomain \in validConsumerDomains
isAllowedCompanyDomain(emailDomain) == emailDomain \in majorCompanyDomains
isEducationalDomain(emailDomain) ==
    \E tld \in validEducationTLDs : EndsWith(emailDomain, tld)

\* The verdict of the `if (email) { ... }` block on a truthy string email:
\* the error of the 400 response it returns, or "ok" when it falls through.
EmailVerdict(email) ==
    IF ~EmailRegexTest(email) THEN "Invalid email format"
    ELSE LET emailDomain == EmailDomain(email)
         IN IF MatchesFakePattern(emailDomain) THEN "Invalid email domain"
            ELSE IF emailDomain \in blockedDomains THEN "Invalid email domain"
            ELSE IF MatchesSuspiciousPattern(emailDomain) THEN "Invalid email domain"
            ELSE IF /\ ~isAllowedConsumerDomain(emailDomain)
                    /\ ~isAllowedCompanyDomain(emailDomain)
                    /\ ~isEducationalDomain(emailDomain)
                 THEN "Email domain not recognized"
            ELSE "ok"

(***************************************************************************)
(* The e-mail addresses the model submits, and the verdict on each,        *)
(* computed once.                                                          *)
(***************************************************************************)
aGmail == <<"a", "@", "g", "m", "a", "i", "l", ".", "c", "o", "m">>
aGmailCaps == <<"a", "@", "G", "m", "a", "i", "l", ".", "C", "O", "M">>
bApple == <<"b", "@", "a", "p", "p", "l", "e", ".", "c", "o", "m">>
cMit == <<"c", "@", "m", "i", "t", ".", "e", "d", "u">>
dTest1 == <<"d", "@", "t", "e", "s", "t", "1", ".", "c", "o", "m">>
eContest == <<"e", "@", "c", "o", "n", "t", "e", "s", "t", ".", "e", "d", "u">>
fMailinator == <<"f", "@", "m", "a", "i", "l", "i", "n", "a", "t", "o", "r", ".", "c", "o", "m">>
gTrashmail == <<"g", "@", "t", "r", "a", "s", "h", "m", "a", "i", "l", ".", "n", "e", "t">>
hUnknown == <<"h", "@", "u", "n", "k", "n", "o", "w", "n", ".", "o", "r", "g">>
iNoAt == <<"n", "o", "b", "o", "d", "y">>
jNoDot == <<"j", "@", "g", "m", "a", "i", "l">>

EmailStrings ==
    {aGmail, aGmailCaps, bApple, cMit, dTest1, eContest, fMailinator, gTrashmail,
     hUnknown, iNoAt, jNoDot}
EmailVerdicts == [email \in EmailStrings |-> EmailVerdict(email)]

(***************************************************************************)
(* Responses.  formatResponse(statusCode, body) wraps a body in the CORS   *)
(* headers; the model keeps the status code and the body fields that any   *)
(* handler sets, with a neutral value in the fields a response lacks.      *)
(***************************************************************************)
NoToken == <<>>
NoAverage == [t |-> "null", n |-> 0, s |-> <<>>]

formatResponse(statusCode, error) ==
    [statusCode |-> statusCode,
     error |-> error,
     channelId |-> <<>>,
     timestamp |-> 0,
     averageRating |-> NoAverage,
     totalRatings |-> 0,
     comments |-> <<>>,
     creators |-> <<>>,
     total |-> 0,
     count |-> 0,
     minRatings |-> 0,
     channelTitle |-> <<>>,
     thumbnailUrl |-> <<>>,
     description |-> <<>>,
     profilePicture |-> Null,
     channelInfo |-> "",
     items |-> <<>>,
     ratings |-> <<>>,
     nextToken |-> NoToken]

\* the value of `last` when no invocation has answered yet
NoResponse == formatResponse(0, "")

(***************************************************************************)
(* The table: a set of items, at most one per (channelId, timestamp), the  *)
(* hash and range key declared in src/index.js.  A timestamp is the        *)
(* instant new Date() read; toISOString() writes it in a fixed-width       *)
(* format whose string order is the order of the instants.                 *)
(***************************************************************************)
ItemKey(item) == <<item.channelId, item.timestamp>>

\* variant: a put that never replaces, as a table without a key would do
PutItemBeside(table, item) == table \cup {item}

\* dynamoDB.put({Item: item}): insert, or replace the item holding the same key
PutItem(table, item) ==
    {i \in table : ItemKey(i) # ItemKey(item)} \cup {item}

\* the items of a set, in ascending order of timestamp (one partition's sort order)
RECURSIVE SortByTimestamp(_)
SortByTimestamp(items) ==
    IF items = {} THEN <<>>
    ELSE LET first == CHOOSE i \in items : \A j \in items : i.timestamp <= j.timestamp
         IN <<first>> \o SortByTimestamp(items \ {first})

Reverse(seq) == [i \in 1..Len(seq) |-> seq[Len(seq) + 1 - i]]

\* dynamoDB.query with KeyConditionExpression 'channelId = :channelId':
\* the partition's items in ascending sort-key order
QueryChannel(table, channelId) ==
    SortByTimestamp({i \in table : i.channelId = channelId})

(***************************************************************************)
(* POST /ratings: handlePostRating, cut at its awaits.                     *)
(*                                                                         *)
(* An event is [body, sourceIp]; body is what JSON.parse(event.body)       *)
(* makes of the request body: kind "invalid" (it throws), "null",          *)
(* "primitive" (a number, string or boolean: destructuring finds no        *)
(* field) or "object" with the fields below.                               *)
(***************************************************************************)
unknown == <<"u", "n", "k", "n", "o", "w", "n">>
MAX_RATINGS_PER_IP_PER_CREATOR == 2

\* const { channelId, channelTitle, rating, comment, email } = body
Field(body, name) == IF body.kind = "object" THEN body[name] ELSE Undef

\* v || '' for a string-or-missing field
OrEmpty(v) == IF Truthy(v) THEN v.s ELSE <<>>

\* event.requestContext?.identity?.sourceIp || 'unknown'
SourceIp(event) == IF Truthy(event.sourceIp) THEN event.sourceIp.s ELSE unknown

\* Lines 82-207: parsing and the input checks.  The response that ends the
\* invocation, or NoResponse when the checks pass.
ValidateRating(event) ==
    LET body == event.body
        channelId == Field(body, "channelId")
        rating == Field(body, "rating")
        email == Field(body, "email")
    IN IF body.kind = "invalid" THEN formatResponse(400, "Invalid request body")
       \* destructuring null throws a TypeError, caught by exports.handler
       ELSE IF body.kind = "null" THEN formatResponse(500, "Internal server error")
       ELSE IF ~Truthy(channelId) THEN formatResponse(400, "Channel ID is required")
       ELSE IF \/ ~Truthy(rating)
               \/ TypeOf(rating) # "number"
               \/ rating.n < 10
               \/ rating.n > 50
            THEN formatResponse(400, "Rating must be a number between 1 and 5")
       ELSE IF Truthy(email) /\ EmailVerdicts[email.s] # "ok"
            THEN formatResponse(400, EmailVerdicts[email.s])
       ELSE NoResponse

\* variant: the duplicate test passing one earlier rating (length > 1)
CheckDuplicateEmailOver(table, event, queryFails) ==
    LET channelId == Field(event.body, "channelId").s
        email == Field(event.body, "email")
        SameEmail(item) == item.email = email.s
        existingRatings == SelectSeq(QueryChannel(table, channelId), SameEmail)
    IN IF Truthy(email) /\ ~queryFails /\ Len(existingRatings) > 1
       THEN formatResponse(400, "You have already rated this channel")
       ELSE NoResponse

\* variant: a duplicate check that compares the addresses lower-cased
CheckDuplicateEmailFolded(table, event, queryFails) ==
    LET channelId == Field(event.body, "channelId").s
        email == Field(event.body, "email")
        SameEmail(item) == ToLowerCase(item.email) = ToLowerCase(email.s)
        existingRatings == SelectSeq(QueryChannel(table, channelId), SameEmail)
    IN IF Truthy(email) /\ ~queryFails /\ Len(existingRatings) > 0
       THEN formatResponse(400, "You have already rated this channel")
       ELSE NoResponse

\* variant: a duplicate check whose query failure is answered with 500
CheckDuplicateEmailSurfaced(table, event, queryFails) ==
    LET channelId == Field(event.body, "channelId").s
        email == Field(event.body, "email")
        SameEmail(item) == item.email = email.s
        existingRatings == SelectSeq(QueryChannel(table, channelId), SameEmail)
    IN IF Truthy(email) /\ queryFails
       THEN formatResponse(500, "Failed to check existing ratings")
       ELSE IF Truthy(email) /\ Len(existingRatings) > 0
       THEN formatResponse(400, "You have already rated this channel")
       ELSE NoResponse

\* Lines 212-236: the duplicate query and its verdict.  queryFails is the
\* outcome of dynamoDB.query; the catch block logs and goes on.
CheckDuplicateEmail(table, event, queryFails) ==
    LET channelId == Field(event.body, "channelId").s
        email == Field(event.body, "email")
        SameEmail(item) == item.email = email.s
        existingRatings == SelectSeq(QueryChannel(table, channelId), SameEmail)
    IN IF Truthy(email) /\ ~queryFails /\ Len(existingRatings) > 0
       THEN formatResponse(400, "You have already rated this channel")
       ELSE NoResponse

\* variant: the per-IP test with > in place of >=
CheckIpLimitOver(table, event, queryFails) ==
    LET channelId == Field(event.body, "channelId").s
        sourceIp == SourceIp(event)
        SameIp(item) == item.ipAddress = sourceIp
        existingRatings == SelectSeq(QueryChannel(table, channelId), SameIp)
    IN IF /\ sourceIp # unknown
          /\ ~queryFails
          /\ Len(existingRatings) > MAX_RATINGS_PER_IP_PER_CREATOR
       THEN formatResponse(429, "Rating limit reached")
       ELSE NoResponse

\* Lines 238-271: the per-IP query and its verdict
CheckIpLimit(table, event, queryFails) ==
    LET channelId == Field(event.body, "channelId").s
        sourceIp == SourceIp(event)
        SameIp(item) == item.ipAddress = sourceIp
        existingRatings == SelectSeq(QueryChannel(table, channelId), SameIp)
    IN IF /\ sourceIp # unknown
          /\ ~queryFails
          /\ Len(existingRatings) >= MAX_RATINGS_PER_IP_PER_CREATOR
       THEN formatResponse(429, "Rating limit reached")
       ELSE NoResponse

\* Lines 273-304: the item, stamped with the instant read from the clock
BuildItem(event, timestamp) ==
    [channelId |-> Field(event.body, "channelId").s,
     timestamp |-> timestamp,
     rating |-> Field(event.body, "rating").n,
     channelTitle |-> OrEmpty(Field(event.body, "channelTitle")),
     thumbnailUrl |-> OrEmpty(Field(event.body, "thumbnailUrl")),
     description |-> OrEmpty(Field(event.body, "description")),
     profilePicture |-> OrEmpty(Field(event.body, "profilePicture")),
     email |-> OrEmpty(Field(event.body, "email")),
     ipAddress |-> SourceIp(event)]

\* Lines 306-322: the response to the put
PutResponse(item, putFails) ==
    IF putFails THEN formatResponse(500, "Failed to save rating")
    ELSE [formatResponse(201, "") EXCEPT !.timestamp = item.timestamp,
                                         !.channelId = item.channelId]

\* The table after the put
PutOutcome(table, item, putFails) == IF putFails THEN table ELSE PutItem(table, item)

\* variant: the per-IP check run before the duplicate check
handlePostRatingLimitFirst(table, clock, event, faults) ==
    LET invalid == ValidateRating(event)
        duplicate == CheckDuplicateEmail(table, event, faults.dup)
        limited == CheckIpLimit(table, event, faults.ip)
        item == BuildItem(event, clock)
    IN IF invalid # NoResponse THEN [response |-> invalid, table |-> table]
       ELSE IF limited # NoResponse THEN [response |-> limited, table |-> table]
       ELSE IF duplicate # NoResponse THEN [response |-> duplicate, table |-> table]
       ELSE [response |-> PutResponse(item, faults.put),
             table |-> PutOutcome(table, item, faults.put)]

\* handlePostRating as a whole, with nothing running between its awaits:
\* the response and the table it leaves.  faults = [dup, ip, put] are the
\* outcomes of its three store calls.
handlePostRating(table, clock, event, faults) ==
    LET invalid == ValidateRating(event)
        duplicate == CheckDuplicateEmail(table, event, faults.dup)
        limited == CheckIpLimit(table, event, faults.ip)
        item == BuildItem(event, clock)
    IN IF invalid # NoResponse THEN [response |-> invalid, table |-> table]
       ELSE IF duplicate # NoResponse THEN [response |-> duplicate, table |-> table]
       ELSE IF limited # NoResponse THEN [response |-> limited, table |-> table]
       ELSE [response |-> PutResponse(item, faults.put),
             table |-> PutOutcome(table, item, faults.put)]

(***************************************************************************)
(* Numbers.  A rating is held in tenths, so the items' ratings sum         *)
(* exactly; the mean totalRatings / length is the IEEE-754 double nearest  *)
(* the quotient, and toFixed(1) rounds the exact value of that double to   *)
(* one decimal, a tie going to the larger result.                          *)
(*                                                                         *)
(* With S the sum in tenths and n the count, ten times the mean is S/n.    *)
(* Off a tie the double's error (under 2^-50) cannot move S/n across the   *)
(* half, which lies at least 1/(2n) away.  On a tie the mean is p/20 with  *)
(* p odd.  If 5 divides p the mean is a multiple of 1/4, the double is     *)
(* exact and the tie goes up.  Otherwise the mean is not a double: in the  *)
(* binade 2^j <= mean < 2^(j+1) the doubles are 2^(j-52) apart, the mean   *)
(* is p * 2^(50-j) / 5 of these steps, and it is rounded down exactly when *)
(* p * 2^(50-j) mod 5 is 1 or 2; 2^(50-j) mod 5 is 4, 2, 1 for j = 0, 1, 2 *)
(* (means of ratings lie in [1, 5]).                                       *)
(***************************************************************************)
RECURSIVE SumRatings(_)
SumRatings(items) ==
    IF items = <<>> THEN 0 ELSE Head(items).rating + SumRatings(Tail(items))

\* whether the double nearest p/20 (p odd, 20 <= p <= 100) lies below p/20
DoubleLiesBelow(p) ==
    LET weight == IF p < 40 THEN 4 ELSE IF p < 80 THEN 2 ELSE 1
    IN p % 5 # 0 /\ ((p * weight) % 5) \in {1, 2}

\* (sum / n).toFixed(1), as a count of tenths
ToFixedTenths(sum, n) ==
    LET floor == sum \div n
        twiceRest == 2 * (sum % n)
    IN IF twiceRest < n THEN floor
       ELSE IF twiceRest > n THEN floor + 1
       ELSE IF DoubleLiesBelow(2 * floor + 1) THEN floor
       ELSE floor + 1

DigitSeq == <<"0", "1", "2", "3", "4", "5", "6", "7", "8", "9">>

RECURSIVE IntChars(_)
IntChars(k) ==
    IF k < 10 THEN <<DigitSeq[k + 1]>>
    ELSE IntChars(k \div 10) \o <<DigitSeq[(k % 10) + 1]>>

\* (sum / n).toFixed(1): the string, e.g. "4.7"
ToFixed1(sum, n) ==
    LET tenths == ToFixedTenths(sum, n)
    IN IntChars(tenths \div 10) \o <<".">> \o IntChars(tenths % 10)

DigitValue(c) == (CHOOSE k \in 1..10 : DigitSeq[k] = c) - 1

\* the value of the longest prefix of digits of s, or -1 for none (NaN)
RECURSIVE DigitsValue(_, _)
DigitsValue(s, acc) ==
    IF s = <<>> \/ Head(s) \notin DigitChars THEN acc
    ELSE DigitsValue(Tail(s), (IF acc < 0 THEN 0 ELSE 10 * acc) + DigitValue(Head(s)))

\* parseFloat of a string written by toFixed(1): a number, in tenths
ParseFloat(s) ==
    LET whole == SplitFirst(s, ".")
        frac == SplitSecond(s, ".")
    IN Num(10 * DigitsValue(whole, -1) + DigitsValue(frac, -1))

NaN == [t |-> "NaN", n |-> 0, s |-> <<>>]

\* parseInt(v, 10) of a query-string parameter: an optional '-' and the
\* digits that follow it; undefined and strings that start otherwise give NaN
\* (the model passes no '+' and no spaces)
ParseInt(v) ==
    LET negative == v.t = "string" /\ v.s # <<>> /\ Head(v.s) = "-"
        digits == IF negative THEN Tail(v.s) ELSE v.s
    IN IF v.t = "string" /\ DigitsValue(digits, -1) >= 0
       THEN Num(IF negative THEN 0 - DigitsValue(digits, -1) ELSE DigitsValue(digits, -1))
       ELSE NaN

\* parseInt(v, 10) || dflt: NaN and 0 are falsy
ParseIntOr(v, dflt) ==
    IF ParseInt(v).t = "number" /\ ParseInt(v).n # 0 THEN ParseInt(v).n ELSE dflt

\* items.map(item => ({comment, rating, timestamp}))
Comments(items) ==
    [i \in 1..Len(items) |-> [rating |-> items[i].rating, timestamp |-> items[i].timestamp]]

(***************************************************************************)
(* GET /ratings: handleGetRatings                                          *)
(***************************************************************************)
\* variant: a handler that answers 200 for a channel without records too
handleGetRatingsNoNotFound(table, channelId, queryFails) ==
    IF ~Truthy(channelId) THEN formatResponse(400, "Channel ID (channelId) is required")
    ELSE IF queryFails THEN formatResponse(500, "Failed to retrieve ratings")
    ELSE LET Items == QueryChannel(table, channelId.s)
         IN [formatResponse(200, "") EXCEPT
                !.channelId = channelId.s,
                !.averageRating = IF Len(Items) > 0
                                  THEN Str(ToFixed1(SumRatings(Items), Len(Items)))
                                  ELSE NoAverage,
                !.totalRatings = Len(Items),
                !.comments = Comments(Items)]

handleGetRatings(table, channelId, queryFails) ==
    IF ~Truthy(channelId) THEN formatResponse(400, "Channel ID (channelId) is required")
    ELSE IF queryFails THEN formatResponse(500, "Failed to retrieve ratings")
    ELSE LET Items == QueryChannel(table, channelId.s)
         IN IF Len(Items) > 0
            THEN [formatResponse(200, "") EXCEPT
                    !.channelId = channelId.s,
                    !.averageRating = Str(ToFixed1(SumRatings(Items), Len(Items))),
                    !.totalRatings = Len(Items),
                    !.comments = Comments(Items)]
            ELSE [formatResponse(404, "No ratings found for this channel") EXCEPT
                    !.channelId = channelId.s]

(***************************************************************************)
(* Pagination tokens.  A token is the base64 text of the JSON text of the  *)
(* store's LastEvaluatedKey {channelId, timestamp}; the two encodings are  *)
(* kept as two wrappers around the key, and decoding unwraps them or       *)
(* fails, as JSON.parse does on text that is no JSON.                      *)
(***************************************************************************)
NoKey == <<>>
JSONStringify(key) == <<"json", key[1], key[2]>>
Base64Encode(text) == <<"base64", text>>
EncodeToken(key) == Base64Encode(JSONStringify(key))

\* Buffer.from(token, 'base64').toString(): never throws; text that was not
\* written by Base64Encode decodes to bytes that are no JSON
Base64Decode(token) == IF Len(token) = 2 /\ token[1] = "base64" THEN token[2] ELSE <<"bytes">>
JSONParses(text) == Len(text) = 3 /\ text[1] = "json"
JSONParse(text) == <<text[2], text[3]>>
TokenParses(token) == JSONParses(Base64Decode(token))
DecodeToken(token) == JSONParse(Base64Decode(token))

\* the first k elements of a sequence (all of it when shorter)
Take(seq, k) == SubSeq(seq, 1, IF k < Len(seq) THEN k ELSE Len(seq))

(***************************************************************************)
(* dynamoDB.query with ScanIndexForward false, Limit and an optional       *)
(* ExclusiveStartKey: the partition's items after the start key in         *)
(* descending sort-key order, cut at Limit.  LastEvaluatedKey is the key   *)
(* of the last item read when the query stopped at Limit; when Limit was   *)
(* reached on the partition's very last item the store may or may not      *)
(* report a key (keyAtEnd).  The store's own 1 MB page cut is not          *)
(* modelled for queries.                                                   *)
(***************************************************************************)
\* variant: a query that starts at ExclusiveStartKey, not after it
QueryPageFromStartKey(table, channelId, limit, startKey, keyAtEnd) ==
    LET all == Reverse(QueryChannel(table, channelId))
        After(item) == startKey = NoKey \/ item.timestamp <= startKey[2]
        rest == SelectSeq(all, After)
        Items == Take(rest, limit)
        stopped == Len(rest) > limit \/ (Len(rest) = limit /\ keyAtEnd)
    IN [Items |-> Items,
        LastEvaluatedKey |-> IF stopped THEN ItemKey(Items[Len(Items)]) ELSE NoKey]

QueryPage(table, channelId, limit, startKey, keyAtEnd) ==
    LET all == Reverse(QueryChannel(table, channelId))
        After(item) == startKey = NoKey \/ item.timestamp < startKey[2]
        rest == SelectSeq(all, After)
        Items == Take(rest, limit)
        stopped == Len(rest) > limit \/ (Len(rest) = limit /\ keyAtEnd)
    IN [Items |-> Items,
        LastEvaluatedKey |-> IF stopped THEN ItemKey(Items[Len(Items)]) ELSE NoKey]

\* variant: the field of the first item, whatever it holds
FirstItemField(items, field) ==
    IF items = <<>> THEN <<>> ELSE Head(items)[field]

\* the profilePicture of the response: null, or the object a record holds
\* (an object is held as the URL under its key default)
ProfilePicture(default) ==
    IF default = <<>> THEN Null ELSE [t |-> "object", n |-> 0, s |-> default]

\* the first non-empty value of a field over the items, or '' (the forEach of
\* getChannelRatings: `if (item.f && !f) f = item.f`)
RECURSIVE FirstNonEmpty(_, _)
FirstNonEmpty(items, field) ==
    IF items = <<>> THEN <<>>
    ELSE IF Head(items)[field] # <<>> THEN Head(items)[field]
    ELSE FirstNonEmpty(Tail(items), field)

DEFAULT_PROFILE_LIMIT == 20

(***************************************************************************)
(* GET /profile: getChannelRatings and exports.handler of                  *)
(* creatorProfile.js.  The query throws on a store failure, on a Limit     *)
(* that is not a positive number, on a token that does not parse and on a  *)
(* start key of another partition.                                         *)
(***************************************************************************)
getChannelRatingsThrows(channelId, limit, nextToken, queryFails) ==
    LET Limit == IF limit = Undef THEN Num(DEFAULT_PROFILE_LIMIT) ELSE ParseInt(limit)
    IN \/ queryFails
       \/ Limit.t # "number"
       \/ Limit.n < 1
       \/ (Truthy(nextToken) /\ ~TokenParses(nextToken.s))
       \/ (Truthy(nextToken) /\ TokenParses(nextToken.s)
              /\ DecodeToken(nextToken.s)[1] # channelId)

getChannelRatings(table, channelId, limit, nextToken, keyAtEnd) ==
    LET Limit == IF limit = Undef THEN DEFAULT_PROFILE_LIMIT ELSE ParseInt(limit).n
        startKey == IF Truthy(nextToken) THEN DecodeToken(nextToken.s) ELSE NoKey
        result == QueryPage(table, channelId, Limit, startKey, keyAtEnd)
        Items == result.Items
    IN IF Len(Items) > 0
       THEN [formatResponse(200, "") EXCEPT
               !.channelId = channelId,
               !.channelTitle = FirstNonEmpty(Items, "channelTitle"),
               !.thumbnailUrl = FirstNonEmpty(Items, "thumbnailUrl"),
               !.profilePicture = ProfilePicture(FirstNonEmpty(Items, "profilePicture")),
               !.description = FirstNonEmpty(Items, "description"),
               !.averageRating = ParseFloat(ToFixed1(SumRatings(Items), Len(Items))),
               !.totalRatings = Len(Items),
               !.comments = Comments(Items),
               !.nextToken = IF result.LastEvaluatedKey # NoKey
                             THEN EncodeToken(result.LastEvaluatedKey)
                             ELSE NoToken]
       ELSE [formatResponse(200, "No ratings found for this channel") EXCEPT
               !.channelId = channelId]

\* variant: a handler that a failing channels call fails
profileHandlerUpstreamFails(table, params, env, queryFails, keyAtEnd) ==
    IF ~Truthy(params.channelId)
    THEN formatResponse(400, "Channel ID (channelId) is required")
    ELSE IF ~env.apiKey
    THEN formatResponse(500, "Server configuration error - API key missing")
    ELSE IF env.youtube = "error"
            \/ getChannelRatingsThrows(params.channelId.s, params.limit,
                                       params.nextToken, queryFails)
    THEN formatResponse(500, "Error processing request")
    ELSE [getChannelRatings(table, params.channelId.s, params.limit,
                            params.nextToken, keyAtEnd)
            EXCEPT !.channelInfo = env.youtube]

\* env = [apiKey, youtube]: whether YOUTUBE_API_KEY is set, and how the
\* channels call of getChannelDetails ends ("ok", "not_found", "error")
profileHandler(table, params, env, queryFails, keyAtEnd) ==
    IF ~Truthy(params.channelId)
    THEN formatResponse(400, "Channel ID (channelId) is required")
    ELSE IF ~env.apiKey
    THEN formatResponse(500, "Server configuration error - API key missing")
    ELSE IF getChannelRatingsThrows(params.channelId.s, params.limit,
                                    params.nextToken, queryFails)
    THEN formatResponse(500, "Error processing request")
    ELSE [getChannelRatings(table, params.channelId.s, params.limit,
                            params.nextToken, keyAtEnd)
            EXCEPT !.channelInfo = env.youtube]

(***************************************************************************)
(* dynamoDB.scan: the table's items in the store's own order (partition    *)
(* by partition in the order of the partitions' hashes, ascending sort     *)
(* key inside a partition), starting after ExclusiveStartKey and cut       *)
(* where the page is full.  The store cuts a page at 1 MB of data;         *)
(* ScanPageItems is the number of items that fill a page of the model.     *)
(* scan({Limit}) cuts at Limit items as well.                              *)
(***************************************************************************)
ScanPageItems == 4

c1 == <<"c", "1">>
c2 == <<"c", "2">>

\* the order of the partitions in a scan
HashOrder == <<c2, c1>>
HashRank(channelId) == CHOOSE k \in 1..Len(HashOrder) : HashOrder[k] = channelId

KeyBefore(k1, k2) ==
    \/ HashRank(k1[1]) < HashRank(k2[1])
    \/ (k1[1] = k2[1] /\ k1[2] < k2[2])

RECURSIVE ScanOrder(_)
ScanOrder(items) ==
    IF items = {} THEN <<>>
    ELSE LET first == CHOOSE i \in items :
                         \A j \in items \ {i} : KeyBefore(ItemKey(i), ItemKey(j))
         IN <<first>> \o ScanOrder(items \ {first})

ScanPage(table, startKey, pageItems) ==
    LET rest == ScanOrder({i \in table : startKey = NoKey \/ KeyBefore(startKey, ItemKey(i))})
        Items == Take(rest, pageItems)
    IN [Items |-> Items,
        LastEvaluatedKey |-> IF Len(rest) > pageItems
                             THEN ItemKey(Items[Len(Items)]) ELSE NoKey]

(***************************************************************************)
(* GET /top-creators: getTopCreators and exports.handler of topCreators.js *)
(***************************************************************************)
DEFAULT_MIN_RATINGS == 1
DEFAULT_TOP_LIMIT == 10

\* channelMap after the forEach over the scanned items: the groups in the
\* order their channelId first appears (Object.values keeps insertion order);
\* title and thumbnail are those of the group's first item
RECURSIVE GroupByChannel(_, _)
GroupByChannel(items, channelMap) ==
    IF items = <<>> THEN channelMap
    ELSE LET item == Head(items)
             known == {k \in 1..Len(channelMap) : channelMap[k].channelId = item.channelId}
             k == CHOOSE x \in known : TRUE
         IN IF known = {}
            THEN GroupByChannel(Tail(items),
                    Append(channelMap,
                           [channelId |-> item.channelId,
                            channelTitle |-> item.channelTitle,
                            thumbnailUrl |-> item.thumbnailUrl,
                            ratings |-> <<[rating |-> item.rating]>>,
                            totalRatings |-> 1]))
            ELSE GroupByChannel(Tail(items),
                    [channelMap EXCEPT
                       ![k].ratings = Append(@, [rating |-> item.rating]),
                       ![k].totalRatings = @ + 1])

\* the .map(channel => ...) of getTopCreators
CreatorSummary(channel) ==
    [channelId |-> channel.channelId,
     channelTitle |-> channel.channelTitle,
     thumbnailUrl |-> channel.thumbnailUrl,
     averageRating |-> ParseFloat(ToFixed1(SumRatings(channel.ratings),
                                           channel.totalRatings)),
     totalRatings |-> channel.totalRatings]

\* topCreators.sort((a, b) => b.averageRating - a.averageRating): a stable
\* sort, highest average first
RECURSIVE SortByAverage(_, _)
SortByAverage(creators, sorted) ==
    IF creators = <<>> THEN sorted
    ELSE LET c == Head(creators)
             ahead == Cardinality({k \in 1..Len(sorted) :
                                     sorted[k].averageRating.n >= c.averageRating.n})
         IN SortByAverage(Tail(creators),
                          SubSeq(sorted, 1, ahead) \o <<c>> \o
                          SubSeq(sorted, ahead + 1, Len(sorted)))

\* .filter(channel => channel.totalRatings >= minRatings)
\* variant: a filter that keeps every channel
KeepsEveryChannel(channel, minRatings) == TRUE

HasMinRatings(channel, minRatings) == channel.totalRatings >= minRatings

\* seq.slice(0, end): the first end elements, or all but the last -end of
\* them when end is negative
Slice(seq, end) ==
    IF end >= 0 THEN Take(seq, end)
    ELSE SubSeq(seq, 1, IF Len(seq) + end > 0 THEN Len(seq) + end ELSE 0)

getTopCreatorsThrows(nextToken, scanFails) ==
    scanFails \/ (Truthy(nextToken) /\ ~TokenParses(nextToken.s))

getTopCreators(table, limit, nextToken, minRatings) ==
    LET startKey == IF Truthy(nextToken) THEN DecodeToken(nextToken.s) ELSE NoKey
        ratingData == ScanPage(table, startKey, ScanPageItems)
        channelMap == GroupByChannel(ratingData.Items, <<>>)
        Enough(channel) == HasMinRatings(channel, minRatings)
        qualifying == SelectSeq(channelMap, Enough)
        topCreators == SortByAverage(
                          [k \in 1..Len(qualifying) |-> CreatorSummary(qualifying[k])], <<>>)
        paginatedResults == Slice(topCreators, limit)
    IN [formatResponse(200, "") EXCEPT
          !.creators = paginatedResults,
          !.total = Len(topCreators),
          !.count = Len(paginatedResults),
          !.minRatings = minRatings,
          !.nextToken = IF ratingData.LastEvaluatedKey # NoKey
                        THEN EncodeToken(ratingData.LastEvaluatedKey)
                        ELSE NoToken]

topCreatorsHandler(table, params, scanFails) ==
    LET limit == ParseIntOr(params.limit, DEFAULT_TOP_LIMIT)
        minRatings == ParseIntOr(params.minRatings, DEFAULT_MIN_RATINGS)
    IN IF getTopCreatorsThrows(params.nextToken, scanFails)
       THEN formatResponse(500, "Internal server error")
       ELSE getTopCreators(table, limit, params.nextToken, minRatings)

(***************************************************************************)
(* GET /search: exports.handler and addRatingsToResults of                 *)
(* youtubeSearchHandler.js.  The event carries queryStringParameters (or   *)
(* none) and, for a direct invocation, q; maxResults only travels to the   *)
(* search API and is left out, as is the event that is a bare string.  An  *)
(* upstream item is [channelId, snippet]; an enriched item carries a       *)
(* ratings field as well, NoRatings when the item is returned as it came.  *)
(***************************************************************************)
SearchEvent(hasParameters, q, direct) ==
    [queryStringParameters |-> [present |-> hasParameters, q |-> q], q |-> direct]

\* lines 15-36
searchQuery(event) ==
    IF event.queryStringParameters.present
    THEN (IF Truthy(event.queryStringParameters.q)
          THEN event.queryStringParameters.q ELSE Str(<<>>))
    ELSE IF Truthy(event.q) THEN event.q
    ELSE Str(<<>>)

\* what one entry of ratingsPromises resolves to: null, or the channel's
\* average and count
NoLookup == [state |-> "pending", channelId |-> <<>>, averageRating |-> <<>>, totalRatings |-> 0]
NullLookup == [NoLookup EXCEPT !.state = "null"]

\* variant: a lookup whose failure is answered with an empty summary
LookupRatingsZeroOnError(table, channelId, queryFails) ==
    LET Items == IF queryFails THEN <<>> ELSE QueryChannel(table, channelId)
    IN IF Len(Items) > 0 \/ queryFails
       THEN [state |-> "rating", channelId |-> channelId,
             averageRating |-> IF queryFails THEN <<"0", ".", "0">>
                               ELSE ToFixed1(SumRatings(Items), Len(Items)),
             totalRatings |-> Len(Items)]
       ELSE NullLookup

\* the async callback of channelIds.map, from its query on
LookupRatings(table, channelId, queryFails) ==
    IF queryFails THEN NullLookup
    ELSE LET Items == QueryChannel(table, channelId)
         IN IF Len(Items) > 0
            THEN [state |-> "rating", channelId |-> channelId,
                  averageRating |-> ToFixed1(SumRatings(Items), Len(Items)),
                  totalRatings |-> Len(Items)]
            ELSE NullLookup

\* ratingsMap after the forEach over ratingsResults: for each channelId the
\* last non-null result that carries it
RatingsMap(ratingsResults) ==
    LET Rated == {k \in 1..Len(ratingsResults) : ratingsResults[k].state = "rating"}
        Ids == {ratingsResults[k].channelId : k \in Rated}
        LastOf(id) == CHOOSE k \in Rated :
                         /\ ratingsResults[k].channelId = id
                         /\ \A j \in Rated : ratingsResults[j].channelId = id => j <= k
    IN [id \in Ids |-> ratingsResults[LastOf(id)]]

NoRatings == [averageRating |-> <<>>, totalRatings |-> 0]

\* variant: an enrichment by position in ratingsResults read as a queue of
\* the results that carry ratings
EnrichByArrival(youtubeResults, ratingsResults) ==
    LET Rated(r) == r.state = "rating"
        arrived == SelectSeq(ratingsResults, Rated)
    IN [k \in 1..Len(youtubeResults) |->
           [channelId |-> youtubeResults[k].channelId,
            snippet |-> youtubeResults[k].snippet,
            ratings |-> IF k <= Len(arrived)
                        THEN [averageRating |-> arrived[k].averageRating,
                              totalRatings |-> arrived[k].totalRatings]
                        ELSE NoRatings]]

\* youtubeResults.map(item => ratingsMap[channelId] ? {...item, ratings} : item)
Enrich(youtubeResults, ratingsResults) ==
    LET ratingsMap == RatingsMap(ratingsResults)
    IN [k \in 1..Len(youtubeResults) |->
           [channelId |-> youtubeResults[k].channelId,
            snippet |-> youtubeResults[k].snippet,
            ratings |-> IF youtubeResults[k].channelId \in DOMAIN ratingsMap
                        THEN [averageRating |->
                                 ratingsMap[youtubeResults[k].channelId].averageRating,
                              totalRatings |->
                                 ratingsMap[youtubeResults[k].channelId].totalRatings]
                        ELSE NoRatings]]

\* variant: a handler that does not look at the search query
searchRejectsKeyOnly(event, env) ==
    IF ~env.apiKey THEN formatResponse(500, "Server configuration error")
    ELSE NoResponse

\* the handler up to its call of the search API: the response it returns
\* before it, or NoResponse
searchRejects(event, env) ==
    IF ~Truthy(searchQuery(event))
    THEN formatResponse(400, "Search query (q) is required")
    ELSE IF ~env.apiKey THEN formatResponse(500, "Server configuration error")
    ELSE NoResponse

\* a catch that answers 500 whatever the error carries
searchFailsInternal(upstream) == formatResponse(500, "Internal server error")

\* the catch of the handler: the status of the upstream answer when there
\* is one, 500 otherwise
searchFails(upstream) ==
    IF upstream.kind = "error_response"
    THEN formatResponse(upstream.status, "YouTube API error")
    ELSE formatResponse(500, "Internal server error")

searchResponds(enrichedResults) ==
    [formatResponse(200, "") EXCEPT !.items = enrichedResults]

(***************************************************************************)
(* GET /recent-ratings: exports.handler and getRecentRatings of            *)
(* recentRatings.js.  The event carries queryStringParameters (or none)    *)
(* and, for a direct invocation, limit; event.body, null on a GET, is left *)
(* out, and RATINGS_TABLE_NAME is set.                                     *)
(***************************************************************************)
DEFAULT_RECENT_LIMIT == 3
MAX_RECENT_LIMIT == 100
RECENT_SCAN_LIMIT == 100

RecentEvent(hasParameters, limit, direct) ==
    [queryStringParameters |-> [present |-> hasParameters, limit |-> limit],
     limit |-> direct]

\* variant: a limit that is not brought back into the range
recentLimitAsParsed(event) ==
    IF event.queryStringParameters.present /\ Truthy(event.queryStringParameters.limit)
    THEN ParseIntOr(event.queryStringParameters.limit, DEFAULT_RECENT_LIMIT)
    ELSE IF Truthy(event.limit) THEN ParseIntOr(event.limit, DEFAULT_RECENT_LIMIT)
    ELSE DEFAULT_RECENT_LIMIT

\* lines 24-49
recentLimit(event) ==
    LET limit ==
           IF event.queryStringParameters.present
              /\ Truthy(event.queryStringParameters.limit)
           THEN ParseIntOr(event.queryStringParameters.limit, DEFAULT_RECENT_LIMIT)
           ELSE IF Truthy(event.limit) THEN ParseIntOr(event.limit, DEFAULT_RECENT_LIMIT)
           ELSE DEFAULT_RECENT_LIMIT
    IN IF limit < 1 \/ limit > MAX_RECENT_LIMIT THEN DEFAULT_RECENT_LIMIT ELSE limit

\* data.Items.sort((a, b) => new Date(b.timestamp) - new Date(a.timestamp)):
\* a stable sort, newest first
RECURSIVE SortNewestFirst(_, _)
SortNewestFirst(items, sorted) ==
    IF items = <<>> THEN sorted
    ELSE LET item == Head(items)
             ahead == Cardinality({k \in 1..Len(sorted) :
                                     sorted[k].timestamp >= item.timestamp})
         IN SortNewestFirst(Tail(items),
                            SubSeq(sorted, 1, ahead) \o <<item>> \o
                            SubSeq(sorted, ahead + 1, Len(sorted)))

\* recentRatings.map(item => ({channelId, rating, timestamp, ...}))
RecentRatings(items) ==
    [k \in 1..Len(items) |->
        [channelId |-> items[k].channelId, rating |-> items[k].rating,
         timestamp |-> items[k].timestamp]]

\* scan({Limit: 100}): one page, cut at 100 items or where the page is full
RecentScan(table) ==
    ScanPage(table, NoKey,
             IF RECENT_SCAN_LIMIT < ScanPageItems THEN RECENT_SCAN_LIMIT
             ELSE ScanPageItems)

getRecentRatings(table, limit, scanFails) ==
    IF scanFails THEN formatResponse(500, "Database error")
    ELSE LET data == RecentScan(table)
             sortedItems == SortNewestFirst(data.Items, <<>>)
             recentRatings == Slice(sortedItems, limit)
         IN IF Len(data.Items) = 0 THEN formatResponse(404, "No ratings found")
            ELSE [formatResponse(200, "") EXCEPT
                    !.count = Len(recentRatings),
                    !.ratings = RecentRatings(recentRatings)]

recentRatingsHandler(table, event, scanFails) ==
    getRecentRatings(table, recentLimit(event), scanFails)

(***************************************************************************)
(* The inputs the model submits.                                           *)
(***************************************************************************)
ip1 == <<"i", "p", "1">>
Channels == {c1, c2}
KnownIps == {ip1}

Body(kind, channelId, rating, email) ==
    [kind |-> kind, channelId |-> channelId, rating |-> rating, email |-> email,
     channelTitle |-> Undef, thumbnailUrl |-> Undef,
     description |-> Undef, profilePicture |-> Undef]

\* bodies that JSON.parse rejects, turns into null, or into a bare number
OddBodies == {Body(k, Undef, Undef, Undef) : k \in {"invalid", "null", "primitive"}}

\* the requests of the sequential runs: well-formed submissions, with or
\* without an e-mail address and a known source IP, and the odd bodies
ChannelInputs == {Str(c1), Str(c2)}
RatingInputs == {Num(50)}
EmailInputs == {Undef, Str(aGmail)}
IpInputs == {Undef, Str(ip1)}
OddEvents == [body : OddBodies, sourceIp : {Undef}]
Events ==
    [body : {Body("object", c, r, e) :
                c \in ChannelInputs, r \in RatingInputs, e \in EmailInputs},
     sourceIp : IpInputs] \cup OddEvents
OneChannelEvents == {event \in Events : event.body.channelId # Str(c2)}
NoEmailEvents == {event \in Events : ~Truthy(event.body.email)}

\* the requests of the validation runs: one channel, every kind of rating
\* and of e-mail address
WideRatingInputs ==
    {Undef, Null, Num(0), Num(10), Num(35), Num(50), Num(60), Str(<<"5">>)}
WideEmailInputs == {Undef} \cup {Str(email) : email \in EmailStrings}
WideEvents ==
    [body : {Body("object", c, r, e) :
                c \in {Undef, Str(c1)}, r \in WideRatingInputs, e \in WideEmailInputs},
     sourceIp : {Undef}] \cup OddEvents

\* the outcomes of the three store calls of one POST /ratings
NoFaults == [dup |-> FALSE, ip |-> FALSE, put |-> FALSE]
Faults == [dup : BOOLEAN, ip : BOOLEAN, put : BOOLEAN]

(***************************************************************************)
(* State.                                                                  *)
(*   store     the table                                                   *)
(*   now       the instant the next new Date() reads                       *)
(*   last      the invocation that answered last: handler, request,        *)
(*             response                                                    *)
(*   accepted  history, kept by CountedPostRating: the number of 201       *)
(*             answers given so far to each (channelId, sourceIp) with a   *)
(*             known sourceIp, counted up to the per-IP limit              *)
(*   sess      a client following pagination tokens                        *)
(*   procs     POST /ratings invocations in flight (concurrent runs)       *)
(*   calls     history, kept by the logged reads and by GET /search: the   *)
(*             store operations and external API calls the invocation that *)
(*             began last has issued, in order                             *)
(*   search    the GET /search invocation in flight                        *)
(***************************************************************************)
VARIABLES store, now, last, accepted, sess, procs, calls, search
vars == <<store, now, last, accepted, sess, procs, calls, search>>

MaxTime == 2
MaxItems == 3

NoSearch == [pc |-> "none", items |-> <<>>, lookups |-> <<>>, failed |-> {}, order |-> <<>>]

NoInvocation == [handler |-> "", request |-> <<>>, response |-> NoResponse]
NoSession == [kind |-> "none", params |-> <<>>, token |-> <<>>, pages |-> <<>>]

Init ==
    /\ store = {}
    /\ now = 1
    /\ last = NoInvocation
    /\ accepted = [k \in Channels \X KnownIps |-> 0]
    /\ sess = NoSession
    /\ procs = <<>>
    /\ calls = <<>>
    /\ search = NoSearch

\* time passes between invocations
Tick ==
    /\ now < MaxTime
    /\ now' = now + 1
    /\ last' = NoInvocation
    /\ UNCHANGED <<store, accepted, sess, procs, calls, search>>

\* the history after an answer to a POST /ratings
Count(response, event) ==
    LET k == <<response.channelId, SourceIp(event)>>
    IN IF response.statusCode = 201 /\ k \in DOMAIN accepted
          /\ accepted[k] < MAX_RATINGS_PER_IP_PER_CREATOR
       THEN [accepted EXCEPT ![k] = @ + 1]
       ELSE accepted

\* a store call can fail only if the invocation gets to make it
Strikes(event, faults) ==
    LET valid == ValidateRating(event) = NoResponse
        unique == CheckDuplicateEmail(store, event, faults.dup) = NoResponse
        allowed == CheckIpLimit(store, event, faults.ip) = NoResponse
    IN /\ faults.dup => valid /\ Truthy(Field(event.body, "email"))
       /\ faults.ip => valid /\ unique /\ SourceIp(event) # unknown
       /\ faults.put => valid /\ unique /\ allowed

\* one POST /ratings invocation, run from start to end with no other
\* invocation in between
Post(event, faults) ==
    LET out == handlePostRating(store, now, event, faults)
    IN /\ Strikes(event, faults)
       /\ Cardinality(out.table) <= MaxItems
       /\ store' = out.table
       /\ last' = [handler |-> "POST /ratings", request |-> event,
                   response |-> out.response]
       /\ UNCHANGED <<now, sess, procs, calls, search>>

PostRating(event, faults) == Post(event, faults) /\ UNCHANGED accepted

\* the same invocation, the history of its answers kept
CountedPostRating(event) ==
    /\ Post(event, NoFaults)
    /\ accepted' = Count(last'.response, event)

GetRatings(channelId, queryFails) ==
    /\ last' = [handler |-> "GET /ratings", request |-> channelId,
                response |-> handleGetRatings(store, channelId, queryFails)]
    /\ UNCHANGED <<store, now, accepted, sess, procs, calls, search>>

\* Sequential invocations, every store call succeeding.
Next ==
    \/ Tick
    \/ \E event \in Events : PostRating(event, NoFaults)
    \/ \E channelId \in ChannelInputs \cup {Undef} : GetRatings(channelId, FALSE)

Spec == Init /\ [][Next]_vars

\* Sequential submissions to one channel and reads of both channels, whose
\* store calls may fail.
NextFaulty ==
    \/ Tick
    \/ \E event \in OneChannelEvents, faults \in Faults : PostRating(event, faults)
    \/ \E channelId \in ChannelInputs \cup {Undef}, queryFails \in BOOLEAN :
          GetRatings(channelId, queryFails)

SpecFaulty == Init /\ [][NextFaulty]_vars

\* Sequential submissions without an e-mail address, every store call
\* succeeding.
NextNoEmail ==
    \/ Tick
    \/ \E event \in NoEmailEvents : CountedPostRating(event)

SpecNoEmail == Init /\ [][NextNoEmail]_vars

\* Submissions of every shape to one channel at one instant.
NextValidate == \E event \in WideEvents : PostRating(event, NoFaults)

SpecValidate == Init /\ [][NextValidate]_vars

(***************************************************************************)
(* POST /ratings invocations running concurrently.  An invocation runs on  *)
(* its own up to each await; every store call takes effect at one instant  *)
(* between the call and its resolution, and other invocations' calls may   *)
(* take effect in between.  procs holds the invocations in the order they  *)
(* began:                                                                  *)
(*   pc          "dup", "ip", "put": the store call it awaits; "done"      *)
(*   timestamp   the instant read at line 274, once read                   *)
(*   response    its response, once done                                   *)
(*   dupAt, ipAt, landedAt   history: the number of puts that had landed   *)
(*               when its duplicate query and its per-IP query ran, and    *)
(*               the rank of its own put among the puts landed             *)
(***************************************************************************)
MaxProcs == 3
MaxInstants == 3

\* submissions of one identity: one channel, one e-mail address, one sourceIp
ConcurrentEvents ==
    {[body |-> Body("object", Str(c1), Num(50), Str(aGmail)), sourceIp |-> Str(ip1)]}

Landed == Cardinality({i \in DOMAIN procs : procs[i].landedAt > 0})

NewProc(event) ==
    [event |-> event, pc |-> "done", timestamp |-> 0, response |-> NoResponse,
     dupAt |-> 0, ipAt |-> 0, landedAt |-> 0]

\* Lines 273-304 once the checks are through: the clock is read and the put sent
AwaitPut(proc, clock) == [proc EXCEPT !.pc = "put", !.timestamp = clock]

\* Lines 238-245: the per-IP query is sent when the sourceIp is known
AfterDuplicateCheck(proc, clock) ==
    IF SourceIp(proc.event) # unknown THEN [proc EXCEPT !.pc = "ip"]
    ELSE AwaitPut(proc, clock)

\* The clock is seen only when it is read: the time that has passed since
\* the last reading shows in the reading, and in nothing else.
ReadsClock(i) == procs'[i].pc = "put"
Clock(i, clock) ==
    /\ clock \in now..MaxInstants
    /\ now' = IF ReadsClock(i) THEN clock ELSE now
    /\ ~ReadsClock(i) => clock = now

\* Lines 80-213: an invocation begins, and runs to its first store call or
\* to the response of a failed input check
Begin(event, clock) ==
    LET invalid == ValidateRating(event)
        proc == NewProc(event)
    IN /\ Len(procs) < MaxProcs
       /\ procs' = Append(procs,
             IF invalid # NoResponse THEN [proc EXCEPT !.response = invalid]
             ELSE IF Truthy(Field(event.body, "email")) THEN [proc EXCEPT !.pc = "dup"]
             ELSE AfterDuplicateCheck(proc, clock))
       /\ Clock(Len(procs) + 1, clock)
       /\ UNCHANGED <<store, last, accepted, sess, calls, search>>

\* Lines 214-236: the duplicate query takes effect and resolves
DupQuery(i, clock) ==
    LET proc == [procs[i] EXCEPT !.dupAt = Landed]
        duplicate == CheckDuplicateEmail(store, proc.event, FALSE)
    IN /\ procs[i].pc = "dup"
       /\ procs' = [procs EXCEPT ![i] =
             IF duplicate # NoResponse
             THEN [proc EXCEPT !.pc = "done", !.response = duplicate]
             ELSE AfterDuplicateCheck(proc, clock)]
       /\ Clock(i, clock)
       /\ UNCHANGED <<store, last, accepted, sess, calls, search>>

\* Lines 246-274: the per-IP query takes effect and resolves
IpQuery(i, clock) ==
    LET proc == [procs[i] EXCEPT !.ipAt = Landed]
        limited == CheckIpLimit(store, proc.event, FALSE)
    IN /\ procs[i].pc = "ip"
       /\ procs' = [procs EXCEPT ![i] =
             IF limited # NoResponse
             THEN [proc EXCEPT !.pc = "done", !.response = limited]
             ELSE AwaitPut(proc, clock)]
       /\ Clock(i, clock)
       /\ UNCHANGED <<store, last, accepted, sess, calls, search>>

\* Lines 306-318: the put lands and resolves
Put(i) ==
    LET item == BuildItem(procs[i].event, procs[i].timestamp)
    IN /\ procs[i].pc = "put"
       /\ store' = PutOutcome(store, item, FALSE)
       /\ Cardinality(store') <= MaxItems
       /\ procs' = [procs EXCEPT ![i] =
             [@ EXCEPT !.pc = "done", !.response = PutResponse(item, FALSE),
                       !.landedAt = Landed + 1]]
       /\ UNCHANGED <<now, last, accepted, sess, calls, search>>

NextConc ==
    \/ \E event \in ConcurrentEvents, clock \in 1..MaxInstants : Begin(event, clock)
    \/ \E i \in DOMAIN procs, clock \in 1..MaxInstants : DupQuery(i, clock)
    \/ \E i \in DOMAIN procs, clock \in 1..MaxInstants : IpQuery(i, clock)
    \/ \E i \in DOMAIN procs : Put(i)

SpecConc == Init /\ [][NextConc]_vars

(***************************************************************************)
(* A client reading page after page: it calls a paginated handler without  *)
(* a token, then feeds each nextToken it is given into its next call,      *)
(* until a response carries none.  Nothing writes meanwhile.  The table    *)
(* is any table submissions without e-mail from an unknown IP can leave.   *)
(*   sess.kind    "profile" or "top": the handler read                     *)
(*   sess.token   the nextToken of the last response, or NoToken           *)
(*   sess.pages   the pages received so far: the comments lists of GET     *)
(*                /profile, the creators lists of GET /top-creators        *)
(***************************************************************************)
MaxStamps == 3

\* the ratings a record of the channel may hold
StoredRatings(channelId) == IF channelId = c1 THEN {40, 50} ELSE {50}

Record(channelId, timestamp, rating) ==
    [channelId |-> channelId, timestamp |-> timestamp, rating |-> rating,
     channelTitle |-> <<>>, thumbnailUrl |-> <<>>, description |-> <<>>,
     profilePicture |-> <<>>, email |-> <<>>,
     ipAddress |-> unknown]

\* the tables holding, under each key, no record or one record
Tables ==
    LET Keys == Channels \X (1..MaxStamps)
        Choices == {choice \in [Keys -> {0, 40, 50}] :
                       \A k \in Keys : choice[k] \in StoredRatings(k[1]) \cup {0}}
    IN {{Record(k[1], k[2], choice[k]) : k \in {x \in Keys : choice[x] # 0}} :
           choice \in Choices}

InitPages ==
    /\ store \in Tables
    /\ now = 1
    /\ last = NoInvocation
    /\ accepted = [k \in Channels \X KnownIps |-> 0]
    /\ sess = NoSession
    /\ procs = <<>>
    /\ calls = <<>>
    /\ search = NoSearch

LimitInputs == {Undef, Str(<<"1">>), Str(<<"2">>)}

\* the limit and minRatings parameters of GET /top-creators
TopLimitInputs == LimitInputs \cup {Str(<<"0">>), Str(<<"-", "1">>)}
MinRatingsInputs == LimitInputs \cup {Str(<<"0">>)}

Session(kind, params, response, pages) ==
    [kind |-> kind, params |-> params, token |-> response.nextToken,
     pages |-> pages]

ProfileParams(channelId, limit, nextToken) ==
    [channelId |-> channelId, limit |-> limit, nextToken |-> nextToken,
     minRatings |-> Undef]
TopParams(limit, minRatings, nextToken) ==
    [channelId |-> Undef, limit |-> limit, nextToken |-> nextToken,
     minRatings |-> minRatings]

Configured == [apiKey |-> TRUE, youtube |-> "ok"]

\* GET /profile?channelId=..&limit=.. , the first call of a session
FirstProfilePage(channelId, limit, keyAtEnd) ==
    LET params == ProfileParams(channelId, limit, Undef)
        response == profileHandler(store, params, Configured, FALSE, keyAtEnd)
    IN /\ sess = NoSession
       /\ sess' = Session("profile", params, response, <<response.comments>>)
       /\ last' = [handler |-> "GET /profile", request |-> params, response |-> response]
       /\ UNCHANGED <<store, now, accepted, procs, calls, search>>

\* GET /profile with the token of the last response
NextProfilePage(keyAtEnd) ==
    LET params == [sess.params EXCEPT !.nextToken = Str(sess.token)]
        response == profileHandler(store, params, Configured, FALSE, keyAtEnd)
    IN /\ sess.kind = "profile"
       /\ sess.token # NoToken
       /\ sess' = Session("profile", sess.params, response,
                          Append(sess.pages, response.comments))
       /\ last' = [handler |-> "GET /profile", request |-> params, response |-> response]
       /\ UNCHANGED <<store, now, accepted, procs, calls, search>>

\* GET /top-creators?limit=..&minRatings=.. , the first call of a session
FirstTopPage(limit, minRatings) ==
    LET params == TopParams(limit, minRatings, Undef)
        response == topCreatorsHandler(store, params, FALSE)
    IN /\ sess = NoSession
       /\ sess' = Session("top", params, response, <<response.creators>>)
       /\ last' = [handler |-> "GET /top-creators", request |-> params,
                   response |-> response]
       /\ UNCHANGED <<store, now, accepted, procs, calls, search>>

\* GET /top-creators with the token of the last response
NextTopPage ==
    LET params == [sess.params EXCEPT !.nextToken = Str(sess.token)]
        response == topCreatorsHandler(store, params, FALSE)
    IN /\ sess.kind = "top"
       /\ sess.token # NoToken
       /\ sess' = Session("top", sess.params, response,
                          Append(sess.pages, response.creators))
       /\ last' = [handler |-> "GET /top-creators", request |-> params,
                   response |-> response]
       /\ UNCHANGED <<store, now, accepted, procs, calls, search>>

NextPages ==
    \/ \E channelId \in ChannelInputs, limit \in LimitInputs, keyAtEnd \in BOOLEAN :
          FirstProfilePage(channelId, limit, keyAtEnd)
    \/ \E keyAtEnd \in BOOLEAN : NextProfilePage(keyAtEnd)
    \/ \E limit \in TopLimitInputs, minRatings \in MinRatingsInputs :
          FirstTopPage(limit, minRatings)
    \/ NextTopPage

SpecPages == InitPages /\ [][NextPages]_vars

(***************************************************************************)
(* Reads of one channel's ratings.  The table holds up to MaxGroup records *)
(* of channel c1, rated 5, 4 and 3, as that many accepted submissions      *)
(* leave it.                                                               *)
(***************************************************************************)
MaxGroup == 20

\* fives records rated 5, then fours rated 4, then threes rated 3
GroupTable(fives, fours, threes) ==
    {Record(c1, t, IF t <= fives THEN 50 ELSE IF t <= fives + fours THEN 40 ELSE 30) :
        t \in 1..(fives + fours + threes)}

GroupTables ==
    {GroupTable(g[1], g[2], g[3]) :
        g \in {x \in (0..MaxGroup) \X (0..MaxGroup) \X (0..MaxGroup) :
                  x[1] + x[2] + x[3] <= MaxGroup}}

InitAvg ==
    /\ store \in GroupTables
    /\ now = 1
    /\ last = NoInvocation
    /\ accepted = [k \in Channels \X KnownIps |-> 0]
    /\ sess = NoSession
    /\ procs = <<>>
    /\ calls = <<>>
    /\ search = NoSearch

\* one GET /profile invocation
GetProfile(params, env, queryFails, keyAtEnd) ==
    /\ last' = [handler |-> "GET /profile", request |-> params,
                response |-> profileHandler(store, params, env, queryFails, keyAtEnd)]
    /\ UNCHANGED <<store, now, accepted, sess, procs, calls, search>>

NextAvg ==
    \/ GetRatings(Str(c1), FALSE)
    \/ \E keyAtEnd \in BOOLEAN :
          GetProfile(ProfileParams(Str(c1), Undef, Undef), Configured, FALSE, keyAtEnd)

SpecAvg == InitAvg /\ [][NextAvg]_vars

(***************************************************************************)
(* GET /search, and the reads that refuse a request without its required   *)
(* parameter.  A search runs on its own up to the await of Promise.all:    *)
(* by then it has called the search API and issued one store query per     *)
(* upstream item.  The queries take effect one by one in any order, each   *)
(* succeeding or failing; when all have, the handler answers.  The table   *)
(* is one that accepted submissions leave and nothing writes meanwhile.    *)
(*   search.pc       "lookups" while queries are outstanding, then "done"  *)
(*   search.items    the upstream items                                    *)
(*   search.lookups  what each query resolved to, by position              *)
(*   search.failed   history: the positions whose query failed             *)
(*   search.order    history: the positions in the order their queries     *)
(*                   completed                                             *)
(***************************************************************************)
\* the channels the search API returns: c3 is never rated
c3 == <<"c", "3">>
SearchChannels == Channels \cup {c3}

Item(channelId) == [channelId |-> channelId, snippet |-> <<"t">> \o channelId]

\* the lists of items that hold each channel at most once
UpstreamLists ==
    UNION {{[k \in 1..n |-> Item(ids[k])] :
               ids \in {x \in [1..n -> SearchChannels] :
                           \A i, j \in 1..n : x[i] = x[j] => i = j}} :
           n \in 0..Cardinality(SearchChannels)}

\* how the call of the search API ends: with items, with an error answer,
\* or with no answer
Upstreams ==
    {[kind |-> "ok", items |-> list, status |-> 200] : list \in UpstreamLists}
    \cup {[kind |-> "error_response", items |-> <<>>, status |-> 403],
          [kind |-> "error_response", items |-> <<>>, status |-> 400],
          [kind |-> "no_response", items |-> <<>>, status |-> 0]}

SearchEvents ==
    {SearchEvent(TRUE, Str(<<"q">>), Undef), SearchEvent(TRUE, Undef, Undef),
     SearchEvent(TRUE, Str(<<>>), Undef), SearchEvent(FALSE, Undef, Undef),
     SearchEvent(FALSE, Undef, Str(<<"q">>))}

Envs == [apiKey : BOOLEAN, youtube : {"ok", "not_found", "error"}]

\* the environments of the invocations whose channels call succeeds
SearchEnvs == {env \in Envs : env.youtube = "ok"}

\* up to two records of c1 (rated 4, then 5) and up to one of c2
SearchTables ==
    {{Record(c1, t, 30 + 10 * t) : t \in 1..n1} \cup {Record(c2, t, 50) : t \in 1..n2} :
        n1 \in 0..2, n2 \in 0..1}

InitSearch ==
    /\ store \in SearchTables
    /\ now = 1
    /\ last = NoInvocation
    /\ accepted = [k \in Channels \X KnownIps |-> 0]
    /\ sess = NoSession
    /\ procs = <<>>
    /\ calls = <<>>
    /\ search = NoSearch

\* the handler from its start to the await of Promise.all, or to its
\* response when it returns before
SearchBegin(event, env, upstream) ==
    LET rejected == searchRejects(event, env)
        youtubeResults == upstream.items
        answered == rejected # NoResponse \/ upstream.kind # "ok" \/ youtubeResults = <<>>
        response == IF rejected # NoResponse THEN rejected
                    ELSE IF upstream.kind # "ok" THEN searchFails(upstream)
                    ELSE searchResponds(<<>>)
    IN /\ search.pc = "none"
       /\ calls' = IF rejected # NoResponse THEN <<>>
                   ELSE <<"youtube.search">> \o
                        [k \in 1..Len(youtubeResults) |-> "dynamodb.query"]
       /\ search' = IF answered THEN [NoSearch EXCEPT !.pc = "done"]
                    ELSE [NoSearch EXCEPT
                            !.pc = "lookups",
                            !.items = youtubeResults,
                            !.lookups = [k \in 1..Len(youtubeResults) |-> NoLookup]]
       /\ last' = [handler |-> "GET /search", request |-> event,
                   response |-> IF answered THEN response ELSE NoResponse]
       /\ UNCHANGED <<store, now, accepted, sess, procs>>

\* the query of the k-th item takes effect and its callback runs to its end
LookupCompletes(k, queryFails) ==
    /\ search.pc = "lookups"
    /\ k \in 1..Len(search.lookups)
    /\ search.lookups[k].state = "pending"
    /\ search' = [search EXCEPT
                    !.lookups[k] = LookupRatings(store, search.items[k].channelId, queryFails),
                    !.failed = IF queryFails THEN @ \cup {k} ELSE @,
                    !.order = Append(@, k)]
    /\ UNCHANGED <<store, now, last, accepted, sess, procs, calls>>

\* Promise.all resolves: ratingsMap, the enriched items, the response
SearchEnd ==
    /\ search.pc = "lookups"
    /\ \A k \in 1..Len(search.lookups) : search.lookups[k].state # "pending"
    /\ search' = [search EXCEPT !.pc = "done"]
    /\ last' = [last EXCEPT !.response = searchResponds(Enrich(search.items, search.lookups))]
    /\ UNCHANGED <<store, now, accepted, sess, procs, calls>>

\* the calls handleGetRatings issues (ratings.js 34-48)
handleGetRatingsCalls(channelId) ==
    IF ~Truthy(channelId) THEN <<>> ELSE <<"dynamodb.query">>

\* the calls the handler of creatorProfile.js issues: the channels call of
\* getChannelDetails, then the query of getChannelRatings unless the token
\* fails to parse before it
profileHandlerCalls(params, env) ==
    IF ~Truthy(params.channelId) \/ ~env.apiKey THEN <<>>
    ELSE IF Truthy(params.nextToken) /\ ~TokenParses(params.nextToken.s)
    THEN <<"youtube.channels">>
    ELSE <<"youtube.channels", "dynamodb.query">>

\* one GET /ratings invocation, its calls logged
LoggedGetRatings(channelId, queryFails) ==
    /\ search.pc # "lookups"
    /\ last' = [handler |-> "GET /ratings", request |-> channelId,
                response |-> handleGetRatings(store, channelId, queryFails)]
    /\ calls' = handleGetRatingsCalls(channelId)
    /\ search' = NoSearch
    /\ UNCHANGED <<store, now, accepted, sess, procs>>

\* one GET /profile invocation, its calls logged
LoggedGetProfile(params, env, queryFails) ==
    /\ search.pc # "lookups"
    /\ last' = [handler |-> "GET /profile", request |-> params,
                response |-> profileHandler(store, params, env, queryFails, FALSE)]
    /\ calls' = profileHandlerCalls(params, env)
    /\ search' = NoSearch
    /\ UNCHANGED <<store, now, accepted, sess, procs>>

\* exports.handler of ratings.js for an httpMethod that is neither GET nor
\* POST (lines 17-19)
methodNotAllowed == formatResponse(405, "Method not allowed")

\* one invocation of the handler of ratings.js with httpMethod OPTIONS
OptionsRatings ==
    /\ search.pc # "lookups"
    /\ last' = [handler |-> "OPTIONS /ratings", request |-> Undef,
                response |-> methodNotAllowed]
    /\ calls' = <<>>
    /\ search' = NoSearch
    /\ UNCHANGED <<store, now, accepted, sess, procs>>

\* one invocation of the handler of creatorProfile.js with httpMethod
\* OPTIONS: the handler does not read event.httpMethod
OptionsProfile(params, env, queryFails) ==
    /\ search.pc # "lookups"
    /\ last' = [handler |-> "OPTIONS /profile", request |-> params,
                response |-> profileHandler(store, params, env, queryFails, FALSE)]
    /\ calls' = profileHandlerCalls(params, env)
    /\ search' = NoSearch
    /\ UNCHANGED <<store, now, accepted, sess, procs>>

NextSearch ==
    \/ \E event \in SearchEvents, env \in SearchEnvs, upstream \in Upstreams :
          SearchBegin(event, env, upstream)
    \/ \E k \in 1..Cardinality(SearchChannels), queryFails \in BOOLEAN :
          LookupCompletes(k, queryFails)
    \/ SearchEnd
    \/ \E channelId \in ChannelInputs \cup {Undef}, queryFails \in BOOLEAN :
          LoggedGetRatings(channelId, queryFails)
    \/ \E channelId \in ChannelInputs \cup {Undef}, env \in Envs, queryFails \in BOOLEAN :
          LoggedGetProfile(ProfileParams(channelId, Undef, Undef), env, queryFails)
    \/ OptionsRatings
    \/ \E channelId \in ChannelInputs \cup {Undef}, env \in SearchEnvs, queryFails \in BOOLEAN :
          OptionsProfile(ProfileParams(channelId, Undef, Undef), env, queryFails)

SpecSearch == InitSearch /\ [][NextSearch]_vars

(***************************************************************************)
(* GET /recent-ratings over a table that accepted submissions leave; the   *)
(* scan may fail.                                                          *)
(***************************************************************************)
RecentLimitInputs ==
    {Undef, Str(<<"0">>), Str(<<"1">>), Str(<<"2">>), Str(<<"-", "1">>),
     Str(<<"1", "0", "0">>), Str(<<"1", "0", "1">>), Str(<<"x">>), Str(<<"2", "x">>)}

RecentEvents ==
    {RecentEvent(TRUE, limit, Undef) : limit \in RecentLimitInputs}
    \cup {RecentEvent(FALSE, Undef, Undef), RecentEvent(FALSE, Undef, Str(<<"2">>))}

\* one GET /recent-ratings invocation
GetRecentRatings(event, scanFails) ==
    /\ last' = [handler |-> "GET /recent-ratings", request |-> event,
                response |-> recentRatingsHandler(store, event, scanFails)]
    /\ UNCHANGED <<store, now, accepted, sess, procs, calls, search>>

NextRecent ==
    \E event \in RecentEvents, scanFails \in BOOLEAN : GetRecentRatings(event, scanFails)

SpecRecent == InitPages /\ [][NextRecent]_vars

(***************************************************************************)
(* POST /ratings with its store calls logged.                              *)
(***************************************************************************)
\* the store calls handlePostRating issues, in order: the duplicate query
\* when the body carries an e-mail address (lines 212-225), the per-IP
\* query when the source IP is known (lines 242-256), the put (line 313);
\* a response returned on the way ends the invocation
handlePostRatingCalls(table, event, faults) ==
    LET dupQuery == IF Truthy(Field(event.body, "email"))
                    THEN <<"dynamodb.query email">> ELSE <<>>
        ipQuery == IF SourceIp(event) # unknown
                   THEN <<"dynamodb.query ipAddress">> ELSE <<>>
    IN IF ValidateRating(event) # NoResponse THEN <<>>
       ELSE IF CheckDuplicateEmail(table, event, faults.dup) # NoResponse THEN dupQuery
       ELSE IF CheckIpLimit(table, event, faults.ip) # NoResponse THEN dupQuery \o ipQuery
       ELSE dupQuery \o ipQuery \o <<"dynamodb.put">>

\* submissions from ip1 that fail one input check or several
FailingBodies ==
    {Body("object", Undef, Num(60), Str(iNoAt)),
     Body("object", Undef, Num(50), Str(aGmail)),
     Body("object", Str(c1), Num(60), Str(iNoAt)),
     Body("object", Str(c1), Num(60), Str(aGmail)),
     Body("object", Str(c1), Null, Str(hUnknown)),
     Body("object", Str(c1), Num(50), Str(iNoAt)),
     Body("object", Str(c1), Num(50), Str(dTest1)),
     Body("object", Str(c1), Num(50), Str(hUnknown))}
OrderEvents == OneChannelEvents \cup [body : FailingBodies, sourceIp : {Str(ip1)}]

\* one POST /ratings invocation run from start to end, its calls logged
LoggedPostRating(event) ==
    LET out == handlePostRating(store, now, event, NoFaults)
    IN /\ Cardinality(out.table) <= MaxItems
       /\ store' = out.table
       /\ last' = [handler |-> "POST /ratings", request |-> event,
                   response |-> out.response]
       /\ calls' = handlePostRatingCalls(store, event, NoFaults)
       /\ UNCHANGED <<now, accepted, sess, procs, search>>

NextOrder ==
    \/ Tick
    \/ \E event \in OrderEvents : LoggedPostRating(event)

SpecOrder == Init /\ [][NextOrder]_vars

(***************************************************************************)
(* Reads of records that carry descriptive fields.  A table holds three    *)
(* records of c1; each record holds some of the four descriptive fields,   *)
(* every value naming its field and its record.                            *)
(***************************************************************************)
DescriptiveFields == {"channelTitle", "thumbnailUrl", "description", "profilePicture"}

FieldValue(field, timestamp) == <<field, <<"1", "2", "3">>[timestamp]>>

Described(timestamp, filled) ==
    LET Value(field) == IF field \in filled THEN FieldValue(field, timestamp) ELSE <<>>
    IN [Record(c1, timestamp, 50) EXCEPT
          !.channelTitle = Value("channelTitle"),
          !.thumbnailUrl = Value("thumbnailUrl"),
          !.description = Value("description"),
          !.profilePicture = Value("profilePicture")]

Fillings ==
    {{}, {"channelTitle"}, {"channelTitle", "description"},
     {"thumbnailUrl", "profilePicture"}, DescriptiveFields}

FieldTables ==
    {{Described(timestamp, filled[timestamp]) : timestamp \in 1..3} :
        filled \in [1..3 -> Fillings]}

InitFields ==
    /\ store \in FieldTables
    /\ now = 1
    /\ last = NoInvocation
    /\ accepted = [k \in Channels \X KnownIps |-> 0]
    /\ sess = NoSession
    /\ procs = <<>>
    /\ calls = <<>>
    /\ search = NoSearch

NextFields ==
    \/ \E limit \in LimitInputs, keyAtEnd \in BOOLEAN :
          FirstProfilePage(Str(c1), limit, keyAtEnd)
    \/ \E keyAtEnd \in BOOLEAN : NextProfilePage(keyAtEnd)
    \/ \E minRatings \in MinRatingsInputs : FirstTopPage(Undef, minRatings)

SpecFields == InitFields /\ [][NextFields]_vars

\* Sequential submissions to one channel whose e-mail addresses differ in
\* letter case only, or are missing.
CaseEvents ==
    [body : {Body("object", Str(c1), Num(50), e) :
                e \in {Undef, Str(aGmail), Str(aGmailCaps)}},
     sourceIp : IpInputs]

NextCase ==
    \/ Tick
    \/ \E event \in CaseEvents : PostRating(event, NoFaults)

SpecCase == Init /\ [][NextCase]_vars

(***************************************************************************)
(* Properties of POST /ratings run sequentially.                           *)
(*                                                                         *)
(* Tick clears last, so a step that changes the variables and leaves       *)
(* last.handler = "POST /ratings" is one POST /ratings invocation: its     *)
(* request is last'.request, its response last'.response, and store and    *)
(* store' are the table before and after it.                               *)
(***************************************************************************)
PostStep == last'.handler = "POST /ratings" /\ vars' # vars

\* a JSON object with a channel, a rating in [1, 5] and, if any, an
\* e-mail address the domain checks let through
WellFormed(event) ==
    /\ event.body.kind = "object"
    /\ Truthy(event.body.channelId)
    /\ event.body.rating.t = "number"
    /\ event.body.rating.n >= 10 /\ event.body.rating.n <= 50
    /\ Truthy(event.body.email) => EmailVerdicts[event.body.email.s] = "ok"

WithEmail(event) == WellFormed(event) /\ Truthy(event.body.email)
WithoutEmail(event) == WellFormed(event) /\ ~Truthy(event.body.email)

RecordsOfEmail(table, channelId, email) ==
    {i \in table : i.channelId = channelId /\ i.email = email}
RecordsOfIp(table, channelId, ipAddress) ==
    {i \in table : i.channelId = channelId /\ i.ipAddress = ipAddress}

IpLimitReached(table, event) ==
    /\ SourceIp(event) # unknown
    /\ Cardinality(RecordsOfIp(table, event.body.channelId.s, SourceIp(event)))
          >= MAX_RATINGS_PER_IP_PER_CREATOR

AtMostOnePerEmail ==
    \A i, j \in store :
        i.channelId = j.channelId /\ i.email = j.email /\ i.email # <<>> => i = j

AtMostTwoPerIp ==
    \A c \in Channels, ip \in KnownIps :
        Cardinality(RecordsOfIp(store, c, ip)) <= MAX_RATINGS_PER_IP_PER_CREATOR

AlreadyRated(response) ==
    /\ response.statusCode = 400
    /\ response.error = "You have already rated this channel"

\* C1 as the specification states it: a submission with an e-mail address
\* is answered 201 when the store holds no record of its (channelId,
\* email), and otherwise 400 'already rated' with the store unchanged; the
\* store never holds two records of one (channelId, non-empty email).
C1_AsStated ==
    /\ []AtMostOnePerEmail
    /\ [][PostStep /\ WithEmail(last'.request) =>
            IF RecordsOfEmail(store, last'.request.body.channelId.s,
                              last'.request.body.email.s) = {}
            THEN last'.response.statusCode = 201
            ELSE AlreadyRated(last'.response) /\ store' = store]_vars

\* C1: a submission with an e-mail address is answered 400 'already
\* rated', the store unchanged, when the store holds a record of its
\* (channelId, email); otherwise 429, the store unchanged, when the store
\* holds two records of its (channelId, sourceIp) and the sourceIp is
\* known; otherwise 201, the store then holding exactly one record of the
\* (channelId, email).  The store never holds two records of one
\* (channelId, non-empty email).
C1_FirstAcceptedLaterRejected ==
    /\ []AtMostOnePerEmail
    /\ [][PostStep /\ WithEmail(last'.request) =>
            LET channelId == last'.request.body.channelId.s
                email == last'.request.body.email.s
            IN IF RecordsOfEmail(store, channelId, email) # {}
               THEN AlreadyRated(last'.response) /\ store' = store
               ELSE IF IpLimitReached(store, last'.request)
               THEN last'.response.statusCode = 429 /\ store' = store
               ELSE /\ last'.response.statusCode = 201
                    /\ Cardinality(RecordsOfEmail(store', channelId, email)) = 1]_vars

\* a second submission of a (channelId, email) has been answered
C1_Witness ==
    /\ last.handler = "POST /ratings"
    /\ AlreadyRated(last.response)
    /\ RecordsOfEmail(store, last.request.body.channelId.s,
                      last.request.body.email.s) # {}

\* the submissions answered 201 so far are fewer than the limit
UnderLimit(event) ==
    accepted[<<event.body.channelId.s, SourceIp(event)>>]
        < MAX_RATINGS_PER_IP_PER_CREATOR

\* C2 as the specification states it: of the submissions without e-mail
\* from one known IP to one channel, the first two are answered 201, the
\* third and every later one 429 with the store unchanged; the store never
\* holds more than two records of one (channelId, known sourceIp).
C2_AsStated ==
    /\ []AtMostTwoPerIp
    /\ [][PostStep /\ WithoutEmail(last'.request)
            /\ SourceIp(last'.request) # unknown =>
            IF UnderLimit(last'.request)
            THEN last'.response.statusCode = 201
            ELSE last'.response.statusCode = 429 /\ store' = store]_vars

\* C2: a submission without e-mail from a known IP is answered 429, the
\* store unchanged, when the store holds two records of its (channelId,
\* sourceIp), and 201 otherwise; the first two submissions of a
\* (channelId, sourceIp) are answered 201; the store never holds more than
\* two records of one (channelId, known sourceIp).
C2_LimitOnStoredRecords ==
    /\ []AtMostTwoPerIp
    /\ [][PostStep /\ WithoutEmail(last'.request)
            /\ SourceIp(last'.request) # unknown =>
            /\ IF IpLimitReached(store, last'.request)
               THEN /\ last'.response.statusCode = 429
                    /\ last'.response.error = "Rating limit reached"
                    /\ store' = store
               ELSE last'.response.statusCode = 201
            /\ UnderLimit(last'.request) => last'.response.statusCode = 201]_vars

\* a submission beyond the second has been answered 429
C2_Witness ==
    /\ last.handler = "POST /ratings"
    /\ last.response.statusCode = 429
    /\ ~Truthy(last.request.body.email)
    /\ ~UnderLimit(last.request)

\* the submission is let through by every check
Passes(table, event) == WithoutEmail(event) /\ ~IpLimitReached(table, event)

\* C5 as the specification states it: a valid submission without e-mail
\* that passes the per-IP check adds exactly one record to the store, under
\* (channelId, generated timestamp), and is answered 201 with that
\* channelId and timestamp.
C5_AsStated ==
    [][PostStep /\ Passes(store, last'.request) =>
        /\ last'.response.statusCode = 201
        /\ last'.response.channelId = last'.request.body.channelId.s
        /\ last'.response.timestamp = now
        /\ Cardinality(store') = Cardinality(store) + 1
        /\ \E item \in store' \ store :
              /\ store' = store \cup {item}
              /\ ItemKey(item) = <<last'.response.channelId,
                                   last'.response.timestamp>>]_vars

\* C5: a valid submission without e-mail that passes the per-IP check puts
\* one record under (channelId, generated timestamp), holding its rating
\* and sourceIp, in place of the record the store held under that key, if
\* any, and leaves every other record alone; the store grows by one record
\* exactly when it held none under the key; the answer is 201 with that
\* channelId and timestamp.
C5_PutUnderGeneratedKey ==
    [][PostStep /\ Passes(store, last'.request) =>
        LET key == <<last'.request.body.channelId.s, now>>
            kept == {i \in store : ItemKey(i) # key}
        IN /\ last'.response.statusCode = 201
           /\ <<last'.response.channelId, last'.response.timestamp>> = key
           /\ \E item \in store' :
                 /\ ItemKey(item) = key
                 /\ item.rating = last'.request.body.rating.n
                 /\ item.ipAddress = SourceIp(last'.request)
                 /\ item.email = <<>>
                 /\ store' = kept \cup {item}
                 /\ item \notin kept
           /\ Cardinality(store') = Cardinality(store) + 1 <=> kept = store]_vars

\* a submission without e-mail has been answered 201 and its record is in
\* the store under the key of the answer
C5_Witness ==
    /\ last.handler = "POST /ratings"
    /\ last.response.statusCode = 201
    /\ ~Truthy(last.request.body.email)
    /\ \E item \in store :
          ItemKey(item) = <<last.response.channelId, last.response.timestamp>>

(***************************************************************************)
(* Properties of the input checks of POST /ratings.                        *)
(***************************************************************************)
IsNumberIn1To5(rating) == rating.t = "number" /\ rating.n >= 10 /\ rating.n <= 50
IsIntegerIn1To5(rating) == rating.t = "number" /\ rating.n \in {10, 20, 30, 40, 50}

\* C3 as the specification states it: a submission whose rating is missing,
\* not a number, not an integer or outside [1, 5] is answered 400 and
\* leaves the store unchanged.
C3_AsStated ==
    [][PostStep /\ last'.request.body.kind = "object"
        /\ ~IsIntegerIn1To5(last'.request.body.rating) =>
        last'.response.statusCode = 400 /\ store' = store]_vars

\* what the claim reads off an address: its lower-cased domain, and the
\* classes the domain falls in
Classify(email) ==
    LET domain == IF EmailRegexTest(email)
                  THEN ToLowerCase(SplitSecond(email, "@")) ELSE <<>>
    IN [shaped |-> EmailRegexTest(email),
        domain |-> domain,
        listed |-> domain \in validConsumerDomains \cup majorCompanyDomains,
        refused |-> \/ MatchesFakePattern(domain)
                    \/ domain \in blockedDomains
                    \/ MatchesSuspiciousPattern(domain)
                    \/ /\ domain \notin validConsumerDomains \cup majorCompanyDomains
                       /\ ~isEducationalDomain(domain)]
Classes == [email \in EmailStrings |-> Classify(email)]

Address(local, domain) == local \o <<"@">> \o domain
Locals == {<<"a">>, <<"z", "9">>, <<"A", ".", "b">>}

\* every allow-listed domain falls through the e-mail checks, whatever the
\* local part
AllowListedPass ==
    \A domain \in validConsumerDomains \cup majorCompanyDomains, local \in Locals :
        EmailVerdict(Address(local, domain)) = "ok"

\* the verdict on an address is the same for every local part
SameDomainSameVerdict ==
    \A email \in EmailStrings, local \in Locals :
        Classes[email].shaped =>
            EmailVerdict(Address(local, SplitSecond(email, "@"))) = EmailVerdicts[email]

\* C4: a submission with an e-mail address of valid shape, a channel and a
\* valid rating goes on to the duplicate check (400 'already rated' or, the
\* sourceIp unknown, 201) when its lower-cased domain is allow-listed, and
\* is answered 400 with the store unchanged when the domain matches a fake
\* marker, the block-list or a suspicious substring or is neither
\* allow-listed nor educational; the verdict depends on the domain only.
C4_DomainClassification ==
    /\ AllowListedPass
    /\ SameDomainSameVerdict
    /\ [][PostStep /\ last'.request.body.kind = "object"
            /\ Truthy(last'.request.body.channelId)
            /\ IsNumberIn1To5(last'.request.body.rating)
            /\ Truthy(last'.request.body.email)
            /\ Classes[last'.request.body.email.s].shaped =>
            LET class == Classes[last'.request.body.email.s]
                channelId == last'.request.body.channelId.s
            IN /\ class.listed =>
                    IF \E i \in store : i.channelId = channelId
                                          /\ i.email = last'.request.body.email.s
                    THEN AlreadyRated(last'.response) /\ store' = store
                    ELSE last'.response.statusCode = 201
               /\ class.refused =>
                    /\ last'.response.statusCode = 400
                    /\ ~AlreadyRated(last'.response)
                    /\ store' = store
               /\ \A other \in EmailStrings :
                    /\ Classes[other].shaped
                    /\ Classes[other].domain = class.domain
                    => EmailVerdicts[other] = EmailVerdicts[last'.request.body.email.s]]_vars

\* an allow-listed address typed in capitals has been accepted
C4_Witness ==
    /\ last.handler = "POST /ratings"
    /\ last.request.body.kind = "object"
    /\ last.request.body.email = Str(aGmailCaps)
    /\ last.response.statusCode = 201

(***************************************************************************)
(* The outcomes of an invocation.                                          *)
(***************************************************************************)
\* the invocation issued its put: the table holds a record under the key of
\* the 201 answer, or the put failed and was answered so
PutIssued(response, table) ==
    \/ /\ response.statusCode = 201
       /\ \E item \in table : ItemKey(item) = <<response.channelId, response.timestamp>>
    \/ /\ response.statusCode = 500
       /\ response.error = "Failed to save rating"

\* C6 as the specification states it: every POST /ratings invocation ends
\* accepted, its put issued and answered 201 or, the put failing, 500, or
\* rejected with 400 or 429 and the store unchanged; every invocation of
\* another handler leaves the store unchanged.
C6_AsStated ==
    [][vars' # vars /\ last'.handler # "" =>
        IF last'.handler = "POST /ratings"
        THEN \/ PutIssued(last'.response, store')
             \/ /\ last'.response.statusCode \in {400, 429}
                /\ store' = store
        ELSE store' = store]_vars

(***************************************************************************)
(* Properties of POST /ratings run concurrently.                           *)
(***************************************************************************)
\* invocation i has put the record
Wrote(i, record) ==
    /\ procs[i].landedAt > 0
    /\ BuildItem(procs[i].event, procs[i].timestamp) = record

\* each of the two ran its query before the put of the other had landed
OverlapOnDuplicateCheck(i, j) ==
    /\ i # j
    /\ procs[i].dupAt < procs[j].landedAt
    /\ procs[j].dupAt < procs[i].landedAt
OverlapOnIpCheck(i, j) ==
    /\ i # j
    /\ procs[i].ipAt < procs[j].landedAt
    /\ procs[j].ipAt < procs[i].landedAt

Accepted(i) == procs[i].pc = "done" /\ procs[i].response.statusCode = 201

\* C7: with invocations running concurrently the store can come to hold two
\* records of one (channelId, non-empty email) and more than two of one
\* (channelId, known sourceIp); whenever it does, two of the invocations
\* that put these records, both answered 201, each ran its duplicate query
\* (its per-IP query) before the put of the other had landed.
C7_LimitsBrokenByOverlap ==
    /\ \A r1, r2 \in store :
          /\ r1 # r2
          /\ r1.channelId = r2.channelId
          /\ r1.email = r2.email
          /\ r1.email # <<>>
          => \E i, j \in DOMAIN procs :
                /\ Wrote(i, r1) /\ Wrote(j, r2)
                /\ Accepted(i) /\ Accepted(j)
                /\ OverlapOnDuplicateCheck(i, j)
    /\ \A c \in Channels, ip \in KnownIps :
          Cardinality(RecordsOfIp(store, c, ip)) > MAX_RATINGS_PER_IP_PER_CREATOR
          => \E i, j \in DOMAIN procs, r1, r2 \in RecordsOfIp(store, c, ip) :
                /\ r1 # r2
                /\ Wrote(i, r1) /\ Wrote(j, r2)
                /\ Accepted(i) /\ Accepted(j)
                /\ OverlapOnIpCheck(i, j)

\* two invocations with the same channel and e-mail address have both been
\* answered 201, and the store holds more than one record of that
\* (channelId, email) and more than two of their (channelId, sourceIp)
C7_Witness ==
    /\ \E i, j \in DOMAIN procs :
          /\ i # j
          /\ Accepted(i) /\ Accepted(j)
          /\ procs[i].event = procs[j].event
          /\ Truthy(procs[i].event.body.email)
          /\ Cardinality(RecordsOfEmail(store, procs[i].event.body.channelId.s,
                                        procs[i].event.body.email.s)) > 1
    /\ ~AtMostTwoPerIp

(***************************************************************************)
(* Properties of the paginated reads.                                      *)
(***************************************************************************)
RECURSIVE Concat(_)
Concat(pages) == IF pages = <<>> THEN <<>> ELSE Head(pages) \o Concat(Tail(pages))

\* the records of a channel as GET /profile reports them, newest first
NewestFirst(channelId) ==
    LET records == {[rating |-> i.rating, timestamp |-> i.timestamp] :
                       i \in {x \in store : x.channelId = channelId}}
    IN CHOOSE seq \in [1..Cardinality(records) -> records] :
          \A i, j \in 1..Cardinality(records) :
              i < j => seq[i].timestamp > seq[j].timestamp

IsPrefix(s, t) == Len(s) <= Len(t) /\ \A i \in 1..Len(s) : s[i] = t[i]

\* C8: while a client follows the nextToken of GET /profile for one channel
\* and limit, the pages received so far, put end to end, are the first
\* records of the channel in newest-first order, none twice and none
\* skipped; when a response carries no nextToken they are all of them.
C8_PagesAreTheChannelNewestFirst ==
    sess.kind = "profile" =>
        LET seen == Concat(sess.pages)
            all == NewestFirst(sess.params.channelId.s)
        IN /\ IsPrefix(seen, all)
           /\ sess.token = NoToken => seen = all

\* three pages of one record each have been read, and nothing is left
C8_Witness ==
    /\ sess.kind = "profile"
    /\ sess.token = NoToken
    /\ Len(sess.pages) >= 3
    /\ Len(sess.pages[1]) = 1 /\ Len(sess.pages[2]) = 1 /\ Len(sess.pages[3]) = 1

RatingCount(channelId) == Cardinality({i \in store : i.channelId = channelId})

OnPage(channelId, page) == \E k \in 1..Len(page) : page[k].channelId = channelId

\* C9 as the specification states it: when a client has followed the
\* nextToken of GET /top-creators until a response carried none, every
\* creator with at least minRatings stored ratings is on one of the pages
\* received, and no creator is on two of them.
C9_AsStated ==
    sess.kind = "top" /\ sess.token = NoToken =>
        \A c \in Channels :
            /\ RatingCount(c) >= ParseIntOr(sess.params.minRatings, DEFAULT_MIN_RATINGS)
                  => \E p \in 1..Len(sess.pages) : OnPage(c, sess.pages[p])
            /\ \A p, q \in 1..Len(sess.pages) :
                  OnPage(c, sess.pages[p]) /\ OnPage(c, sess.pages[q]) => p = q

(***************************************************************************)
(* Properties of the reported averages.                                    *)
(***************************************************************************)
\* the sum, in tenths, of the ratings of the channel's records
StoredSum(channelId) ==
    LET RECURSIVE Sum(_)
        Sum(S) == IF S = {} THEN 0
                  ELSE LET i == CHOOSE x \in S : TRUE IN i.rating + Sum(S \ {i})
    IN Sum({i \in store : i.channelId = channelId})

\* the mean sum / n rounded to tenths, a half going away from zero; sum is
\* a count of tenths
RoundHalfAway(sum, n) == (2 * sum + n) \div (2 * n)

\* the average a 200 response reports, in tenths
Reported(response) ==
    IF response.averageRating.t = "string" THEN ParseFloat(response.averageRating.s).n
    ELSE response.averageRating.n

\* C10 as the specification states it: the average that GET /ratings and
\* GET /profile report for a non-empty group of records of one creator is
\* the mean of the ratings rounded to one decimal, a half going away from
\* zero.
C10_AsStated ==
    /\ last.handler \in {"GET /ratings", "GET /profile"}
    /\ last.response.statusCode = 200
    /\ last.response.totalRatings > 0
    => /\ last.response.totalRatings = RatingCount(last.response.channelId)
       /\ Reported(last.response)
             = RoundHalfAway(StoredSum(last.response.channelId),
                             RatingCount(last.response.channelId))

(***************************************************************************)
(* Properties of the GET /profile summary.                                 *)
(***************************************************************************)
\* the average the handlers compute for sum / n, as a number of tenths
MeanTenths(sum, n) == ParseFloat(ToFixed1(sum, n)).n

\* C11 as the specification states it: whatever limit and nextToken a
\* GET /profile carries, the totalRatings of its 200 response is the number
\* of records stored for the channelId, and its averageRating is the mean
\* of the ratings of all of them.
C11_AsStated ==
    last.handler = "GET /profile" /\ last.response.statusCode = 200 =>
        LET channelId == last.response.channelId
        IN /\ last.response.totalRatings = RatingCount(channelId)
           /\ RatingCount(channelId) > 0 =>
                 /\ last.response.averageRating # NoAverage
                 /\ last.response.averageRating.n
                       = MeanTenths(StoredSum(channelId), RatingCount(channelId))

(***************************************************************************)
(* Properties of GET /top-creators.                                        *)
(***************************************************************************)
\* the records the scan of the last GET /top-creators returned
Scanned ==
    ScanPage(store,
             IF Truthy(last.request.nextToken)
             THEN DecodeToken(last.request.nextToken.s) ELSE NoKey,
             ScanPageItems).Items

\* the number of scanned records of each creator
ScannedCount ==
    LET scanned == Scanned
    IN [c \in Channels |->
           Cardinality({k \in 1..Len(scanned) : scanned[k].channelId = c})]

\* the minRatings of the request, 1 when it carries none
Threshold ==
    IF last.request.minRatings = Undef THEN 1
    ELSE ParseInt(last.request.minRatings).n

TopCreatorsAnswered ==
    last.handler = "GET /top-creators" /\ last.response.statusCode = 200

\* C12: every creator in a GET /top-creators response has at least
\* minRatings (1 when absent) records among the records the call scanned,
\* whatever its average; the response's total is the number of creators that
\* have, and with counts {c1: 3, c2: 1} and minRatings = 2 only c1 appears.
C12_OnlyCreatorsWithMinRatings ==
    TopCreatorsAnswered =>
        LET count == ScannedCount
            Qualifying == {c \in Channels : count[c] >= 1 /\ count[c] >= Threshold}
            creators == last.response.creators
        IN /\ \A k \in 1..Len(creators) :
                 /\ creators[k].channelId \in Qualifying
                 /\ creators[k].totalRatings = count[creators[k].channelId]
           /\ last.response.total = Cardinality(Qualifying)

\* minRatings = 2, three scanned records of c1 and one of c2, whose average
\* is the higher one: the response lists c1 alone
C12_Witness ==
    /\ TopCreatorsAnswered
    /\ last.request.minRatings = Str(<<"2">>)
    /\ ScannedCount[c1] = 3 /\ ScannedCount[c2] = 1
    /\ StoredSum(c1) < 3 * StoredSum(c2)
    /\ Len(last.response.creators) = 1
    /\ last.response.creators[1].channelId = c1

\* the limit of the request, 10 when it carries none
RequestedLimit ==
    IF last.request.limit = Undef THEN 10 ELSE ParseInt(last.request.limit).n

\* the creators of the response are the first creators of the qualifying
\* ones in non-increasing order of average: the scanned creators left out
\* that have enough ratings have no higher average than a returned one
TopOfQualifying ==
    LET scanned == Scanned
        count == ScannedCount
        creators == last.response.creators
        Returned == {creators[k].channelId : k \in 1..Len(creators)}
        Sum(c) == SumRatings(SelectSeq(scanned, LAMBDA i : i.channelId = c))
        Omitted == {c \in Channels \ Returned : count[c] >= 1 /\ count[c] >= Threshold}
    IN /\ \A j, k \in 1..Len(creators) :
             j < k => creators[j].averageRating.n >= creators[k].averageRating.n
       /\ \A c \in Omitted, k \in 1..Len(creators) :
             MeanTenths(Sum(c), count[c]) <= creators[k].averageRating.n

\* C13 as the specification states it: for every integer limit a GET
\* /top-creators carries (10 when it carries none) the response's count is
\* min(limit, total), its creators are in non-increasing order of
\* averageRating, and no qualifying creator left out has a higher
\* averageRating than a returned one.
C13_AsStated ==
    TopCreatorsAnswered =>
        /\ last.response.count
              = (IF RequestedLimit < last.response.total
                 THEN RequestedLimit ELSE last.response.total)
        /\ last.response.count = Len(last.response.creators)
        /\ TopOfQualifying

(***************************************************************************)
(* Properties of GET /ratings.                                             *)
(***************************************************************************)
\* the comments list holds one entry for each stored record of the channel
OneCommentPerRecord(comments, channelId) ==
    /\ Len(comments) = RatingCount(channelId)
    /\ \A i \in {x \in store : x.channelId = channelId} :
          \E k \in 1..Len(comments) :
              comments[k] = [rating |-> i.rating, timestamp |-> i.timestamp]

LacksRequiredParameter ==
    \/ /\ last.handler = "GET /search"
       /\ ~Truthy(searchQuery(last.request))
    \/ /\ last.handler = "GET /ratings"
       /\ ~Truthy(last.request)
    \/ /\ last.handler = "GET /profile"
       /\ ~Truthy(last.request.channelId)

\* C15: a GET /search without q, a GET /ratings without channelId and a
\* GET /profile without channelId answer 400, and the invocation issues no
\* store operation and no external API call.
C15_MissingParameterNoCalls ==
    LacksRequiredParameter =>
        /\ last.response.statusCode = 400
        /\ calls = <<>>
        /\ search.pc # "lookups"

\* a GET /search whose queryStringParameters carry no q was answered 400, the
\* table holding records
C15_Witness ==
    /\ last.handler = "GET /search"
    /\ last.request = SearchEvent(TRUE, Undef, Undef)
    /\ last.response.statusCode = 400
    /\ calls = <<>>
    /\ store # {}

(***************************************************************************)
(* Properties of GET /search.                                              *)
(***************************************************************************)
\* a search that got upstream items and queried the store has answered
SearchAnswered ==
    last.handler = "GET /search" /\ search.pc = "done" /\ search.items # <<>>

\* the annotation of a channel: the average and the count of its stored
\* records, none when it has no record
Annotation(channelId) ==
    IF RatingCount(channelId) > 0
    THEN [averageRating |-> ToFixed1(StoredSum(channelId), RatingCount(channelId)),
          totalRatings |-> RatingCount(channelId)]
    ELSE NoRatings

\* the response lists the upstream items, each in its place and with the
\* fields it came with
AllUpstreamResults ==
    /\ last.response.statusCode = 200
    /\ Len(last.response.items) = Len(search.items)
    /\ \A k \in 1..Len(search.items) :
          /\ last.response.items[k].channelId = search.items[k].channelId
          /\ last.response.items[k].snippet = search.items[k].snippet

\* C16: whichever of the store lookups of a GET /search fail, the response
\* is 200 and lists every upstream item; an item whose lookup failed comes
\* back without a ratings annotation, and an item whose lookup succeeded
\* carries the annotation of its channel, if the channel has records.
C16_FailedLookupsLeaveItemsUnmodified ==
    SearchAnswered =>
        /\ AllUpstreamResults
        /\ \A k \in 1..Len(search.items) :
              last.response.items[k].ratings =
                  IF k \in search.failed THEN NoRatings
                  ELSE Annotation(search.items[k].channelId)

\* the lookup of c1, which has records, failed, and that of c2 succeeded:
\* c1 comes back as it came, c2 annotated
C16_Witness ==
    /\ SearchAnswered
    /\ \E j, k \in 1..Len(search.items) :
          /\ j \in search.failed /\ search.items[j].channelId = c1
          /\ RatingCount(c1) > 0
          /\ last.response.items[j].ratings = NoRatings
          /\ k \notin search.failed /\ search.items[k].channelId = c2
          /\ last.response.items[k].ratings # NoRatings

\* C17: in whatever order the store lookups of a GET /search complete, when
\* none of them fails the response lists the upstream items in the upstream
\* order, and each item carries a ratings annotation exactly when its own
\* channel has a stored record, the annotation being the average and the
\* count of that channel's records.
C17_EnrichedInUpstreamOrder ==
    SearchAnswered /\ search.failed = {} =>
        /\ AllUpstreamResults
        /\ \A k \in 1..Len(search.items) :
              /\ last.response.items[k].ratings # NoRatings
                    <=> RatingCount(search.items[k].channelId) > 0
              /\ last.response.items[k].ratings = Annotation(search.items[k].channelId)

\* the upstream list is c3, c1, c2; the lookups completed in the order c2,
\* c1, c3, and c1 and c2 carry their own, different annotations
C17_Witness ==
    /\ SearchAnswered /\ search.failed = {}
    /\ search.items = <<Item(c3), Item(c1), Item(c2)>>
    /\ search.order = <<3, 2, 1>>
    /\ last.response.items[1].ratings = NoRatings
    /\ last.response.items[2].ratings = Annotation(c1)
    /\ last.response.items[3].ratings = Annotation(c2)
    /\ NoRatings # Annotation(c1) /\ Annotation(c1) # Annotation(c2)
    /\ NoRatings # Annotation(c2)

(***************************************************************************)
(* Properties of GET /recent-ratings.                                      *)
(***************************************************************************)
\* the limit the request carries, Undef when it carries none
RequestedRecentLimit(event) ==
    IF event.queryStringParameters.present /\ Truthy(event.queryStringParameters.limit)
    THEN event.queryStringParameters.limit
    ELSE event.limit

\* the text spells an integer: digits, after a '-' or not
SpellsInteger(v) ==
    /\ v.t = "string"
    /\ LET digits == IF v.s # <<>> /\ Head(v.s) = "-" THEN Tail(v.s) ELSE v.s
       IN /\ digits # <<>>
          /\ \A k \in 1..Len(digits) : digits[k] \in DigitChars

\* the effective limit as the specification states it
StatedRecentLimit(event) ==
    LET requested == RequestedRecentLimit(event)
    IN IF SpellsInteger(requested) /\ ParseInt(requested).n >= 1
          /\ ParseInt(requested).n <= 100
       THEN ParseInt(requested).n ELSE 3

RecentAnswered ==
    last.handler = "GET /recent-ratings" /\ last.response.statusCode \in {200, 404}

\* for the effective limit given, the response is 404 on an empty scan and
\* otherwise holds the min(limit, scanned) newest of the scanned records,
\* newest first
NewestOfScanned(limit) ==
    LET scanned == RecentScan(store).Items
        ratings == last.response.ratings
        Returned == {<<ratings[k].channelId, ratings[k].timestamp>> : k \in 1..Len(ratings)}
        LeftOut == {i \in 1..Len(scanned) : ItemKey(scanned[i]) \notin Returned}
    IN /\ last.response.statusCode = 404 <=> scanned = <<>>
       /\ last.response.statusCode = 200 =>
             /\ last.response.count = (IF limit < Len(scanned) THEN limit ELSE Len(scanned))
             /\ Len(ratings) = last.response.count
             /\ Cardinality(Returned) = Len(ratings)
             /\ \A k \in 1..Len(ratings) :
                   \E i \in 1..Len(scanned) : ItemKey(scanned[i]) = <<ratings[k].channelId, ratings[k].timestamp>>
             /\ \A j, k \in 1..Len(ratings) :
                   j < k => ratings[j].timestamp >= ratings[k].timestamp
             /\ \A i \in LeftOut, k \in 1..Len(ratings) :
                   scanned[i].timestamp <= ratings[k].timestamp

\* C18 as the specification states it: the effective limit of a GET
\* /recent-ratings is the requested limit when that is an integer in [1,100]
\* and 3 otherwise; the response holds min(effective limit, scanned records)
\* ratings, newest first, none of the scanned records left out being newer
\* than a returned one, and an empty scan answers 404.
C18_AsStated ==
    RecentAnswered => NewestOfScanned(StatedRecentLimit(last.request))

\* the effective limit read the way parseInt reads: the integer the text
\* starts with, when there is one and it lies in [1,100], and 3 otherwise
LeadingIntegerLimit(event) ==
    LET parsed == ParseInt(RequestedRecentLimit(event))
    IN IF parsed.t = "number" /\ parsed.n >= 1 /\ parsed.n <= 100 THEN parsed.n ELSE 3

\* C18: the effective limit of a GET /recent-ratings is the integer its
\* requested limit starts with when there is one in [1,100] ("2x" counts as
\* 2) and 3 otherwise; the response holds min(effective limit, scanned
\* records) ratings, newest first, none of the scanned records left out
\* being newer than a returned one, and an empty scan answers 404.
C18_LimitReadByParseInt ==
    RecentAnswered => NewestOfScanned(LeadingIntegerLimit(last.request))

\* limit=2x was answered with two of four scanned records
C18_Witness ==
    /\ RecentAnswered
    /\ RequestedRecentLimit(last.request) = Str(<<"2", "x">>)
    /\ Len(RecentScan(store).Items) = 4
    /\ last.response.count = 2

\* C19 as the specification states it: whatever the table holds, every
\* rating a GET /recent-ratings returns is at least as new as every stored
\* record it does not return.
C19_AsStated ==
    last.handler = "GET /recent-ratings" /\ last.response.statusCode = 200 =>
        LET ratings == last.response.ratings
            Returned == {<<ratings[k].channelId, ratings[k].timestamp>> :
                            k \in 1..Len(ratings)}
        IN \A i \in store, k \in 1..Len(ratings) :
              ItemKey(i) \notin Returned => i.timestamp <= ratings[k].timestamp

(***************************************************************************)
(* Properties of POST /ratings when its store queries fail.                *)
(***************************************************************************)
\* the record the submission leaves, stamped with the instant of the put
Stored(table, event, timestamp) ==
    \E i \in table :
        /\ i.channelId = event.body.channelId.s
        /\ i.timestamp = timestamp
        /\ i.rating = event.body.rating.n
        /\ i.email = OrEmpty(event.body.email)
        /\ i.ipAddress = SourceIp(event)

\* C20: when the duplicate-email query or the per-IP query of a POST
\* /ratings fails, the response does not show it: a failed duplicate query
\* gives no 400, a failed per-IP query no 429, and the response is 500 only
\* when the put fails; unless a per-IP query that succeeds finds the limit
\* reached, a put that succeeds answers 201 and the record is in the table.
C20_QueryErrorsAreSwallowed ==
    [][\A event \in OneChannelEvents, faults \in Faults :
          PostRating(event, faults) /\ (faults.dup \/ faults.ip) =>
              LET response == last'.response
                  limited == ~faults.ip /\ IpLimitReached(store, event)
              IN /\ faults.dup => response.statusCode # 400
                 /\ faults.ip => response.statusCode # 429
                 /\ response.statusCode = 500 <=> ~limited /\ faults.put
                 /\ response.statusCode = 429 <=> limited
                 /\ ~limited /\ ~faults.put =>
                       /\ response.statusCode = 201
                       /\ Stored(store', event, now)]_vars

\* a submission with an e-mail address was answered 201 and the table holds
\* two records of that address for the channel: the duplicate query of the
\* second one failed
C20_Witness ==
    /\ last.handler = "POST /ratings"
    /\ last.response.statusCode = 201
    /\ Truthy(last.request.body.email)
    /\ Cardinality(RecordsOfEmail(store, last.request.body.channelId.s,
                                  last.request.body.email.s)) = 2

(***************************************************************************)
(* Properties of the table over whole runs.                                *)
(***************************************************************************)
\* the step is a POST /ratings answered 201
AcceptedStep == PostStep /\ last'.response.statusCode = 201

\* C21 as the specification states it: no step removes or changes a stored
\* record, a submission answered 201 adds exactly one record, and no other
\* step changes the table.
C21_AsStated ==
    [][/\ store \subseteq store'
       /\ AcceptedStep => Cardinality(store') = Cardinality(store) + 1
       /\ ~AcceptedStep => store' = store]_vars

\* C21: only a submission answered 201 changes the table; it puts one record
\* under (channelId, timestamp of the answer) and leaves every record under
\* another key as it was, so a stored record is changed only by being
\* replaced under its own key by a later submission stamped with the same
\* instant; the number of records grows by one exactly when the key was new,
\* and never shrinks.
C21_OnlyReplacedUnderItsKey ==
    [][/\ ~AcceptedStep => store' = store
       /\ Cardinality(store') >= Cardinality(store)
       /\ AcceptedStep =>
             LET key == <<last'.response.channelId, last'.response.timestamp>>
                 kept == {i \in store : ItemKey(i) # key}
             IN /\ \E item \in store' : ItemKey(item) = key /\ store' = kept \cup {item}
                /\ \A i, j \in store' : ItemKey(i) = ItemKey(j) => i = j
                /\ Cardinality(store') = Cardinality(store) + 1 <=> kept = store]_vars

\* a submission was answered 201 at a later instant than a record the table
\* still holds
C21_Witness ==
    /\ last.handler = "POST /ratings"
    /\ last.response.statusCode = 201
    /\ \E i, j \in store :
          /\ ItemKey(j) = <<last.response.channelId, last.response.timestamp>>
          /\ i.channelId = j.channelId
          /\ i.timestamp < j.timestamp

(***************************************************************************)
(* Properties of OPTIONS requests.                                         *)
(***************************************************************************)
\* C22 as the specification states it: a handler invoked with an OPTIONS
\* request answers 200 and issues no store operation and no external API
\* call.
C22_AsStated ==
    last.handler \in {"OPTIONS /ratings", "OPTIONS /profile"} =>
        /\ last.response.statusCode = 200
        /\ calls = <<>>

\* C23: when the search call of a GET /search fails with an upstream HTTP
\* response, the handler answers with the upstream status; when it fails
\* without a response, the handler answers 500; either way the invocation
\* ends there, having issued the search call and no store query.
C23_UpstreamFailureStatus ==
    [][\A event \in {last'.request} \cap SearchEvents, env \in SearchEnvs,
          upstream \in {u \in Upstreams : u.kind # "ok"} :
          /\ searchRejects(event, env) = NoResponse
          /\ SearchBegin(event, env, upstream)
          => /\ last'.response.statusCode =
                    IF upstream.kind = "error_response" THEN upstream.status ELSE 500
             /\ search'.pc = "done"
             /\ search'.lookups = <<>>
             /\ calls' = <<"youtube.search">>]_vars

\* a search with q and an API key was answered 403, the status of the
\* upstream answer, the table holding records and no query having been issued
C23_Witness ==
    /\ last.handler = "GET /search"
    /\ Truthy(searchQuery(last.request))
    /\ last.response.statusCode = 403
    /\ search.pc = "done"
    /\ calls = <<"youtube.search">>
    /\ store # {}

(***************************************************************************)
(* Termination of a paginated read.                                        *)
(***************************************************************************)
\* the tables that miss one record at most
InitFullPages ==
    /\ store \in {table \in Tables : Cardinality(table) >= 2 * MaxStamps - 1}
    /\ now = 1
    /\ last = NoInvocation
    /\ accepted = [k \in Channels \X KnownIps |-> 0]
    /\ sess = NoSession
    /\ procs = <<>>
    /\ calls = <<>>
    /\ search = NoSearch

\* a client that holds a token passes it on: the follow-up call of a
\* session is taken whenever it stays possible.  This is the weak fairness
\* of NextProfilePage and of NextTopPage with their enabling conditions
\* written out: a follow-up call is possible exactly while the session holds
\* a token.  The tables are those that miss one record at most.
SpecPagesFair ==
    /\ InitFullPages
    /\ [][NextPages]_vars
    /\ \/ []<>(~(sess.kind = "profile" /\ sess.token # NoToken))
       \/ []<><<\E keyAtEnd \in BOOLEAN : NextProfilePage(keyAtEnd)>>_vars
    /\ \/ []<>(~(sess.kind = "top" /\ sess.token # NoToken))
       \/ []<><<NextTopPage>>_vars

\* a paginated read has begun
Paginating == sess.kind \in {"profile", "top"}

\* C24: the table being finite and unchanged, a client that begins a
\* GET /profile with a positive limit, or a GET /top-creators, without a
\* token and passes each returned nextToken on eventually gets a response
\* without nextToken; it gets it after at most one call more than the table
\* holds records.
C24_PaginationEnds ==
    /\ [](Paginating => Len(sess.pages) <= Cardinality(store) + 1)
    /\ (Paginating ~> (Paginating /\ sess.token = NoToken))

\* a GET /profile session of three calls has ended, the last response
\* carrying no nextToken
C24_Witness ==
    /\ sess.kind = "profile"
    /\ Len(sess.pages) >= 3
    /\ sess.token = NoToken
    /\ last.response.statusCode = 200

(***************************************************************************)
(* The order of the checks of POST /ratings.                               *)
(***************************************************************************)
\* the response is a 400 with the given error, the store left alone
Rejects(response, error) == response.statusCode = 400 /\ response.error = error

\* C25: POST /ratings on a JSON object reports the earliest failing check
\* in the order missing channelId, invalid score, malformed e-mail, e-mail
\* domain, duplicate e-mail, per-IP limit; a request that fails an input
\* check issues no store call, a request rejected as duplicate issues the
\* duplicate query only (so a duplicate from an IP at its limit is answered
\* 400, not 429), and no rejected request writes.
C25_EarliestFailingCheck ==
    [][PostStep /\ last'.request.body.kind = "object" =>
        LET event == last'.request
            channelId == event.body.channelId
            rating == event.body.rating
            email == event.body.email
            response == last'.response
            dupQuery == IF Truthy(email) THEN <<"dynamodb.query email">> ELSE <<>>
        IN IF ~Truthy(channelId)
           THEN Rejects(response, "Channel ID is required") /\ calls' = <<>>
           ELSE IF ~IsNumberIn1To5(rating)
           THEN Rejects(response, "Rating must be a number between 1 and 5")
                /\ calls' = <<>>
           ELSE IF Truthy(email) /\ ~EmailRegexTest(email.s)
           THEN Rejects(response, "Invalid email format") /\ calls' = <<>>
           ELSE IF Truthy(email) /\ EmailVerdicts[email.s] # "ok"
           THEN /\ \/ Rejects(response, "Invalid email domain")
                   \/ Rejects(response, "Email domain not recognized")
                /\ calls' = <<>>
           ELSE IF Truthy(email) /\ RecordsOfEmail(store, channelId.s, email.s) # {}
           THEN /\ AlreadyRated(response)
                /\ calls' = <<"dynamodb.query email">>
                /\ store' = store
           ELSE IF IpLimitReached(store, event)
           THEN /\ response.statusCode = 429
                /\ calls' = dupQuery \o <<"dynamodb.query ipAddress">>
                /\ store' = store
           ELSE /\ response.statusCode = 201
                /\ calls'[Len(calls')] = "dynamodb.put"]_vars

\* a duplicate from an IP at its limit has been answered 400 'already
\* rated' after the duplicate query alone
C25_Witness ==
    /\ last.handler = "POST /ratings"
    /\ AlreadyRated(last.response)
    /\ IpLimitReached(store, last.request)
    /\ calls = <<"dynamodb.query email">>

(***************************************************************************)
(* Properties of the descriptive fields of a summary.                      *)
(***************************************************************************)
\* the records of the page a GET /profile answered with, in the order of
\* the page
PageRecords ==
    [k \in 1..Len(last.response.comments) |->
        CHOOSE item \in store :
            /\ item.channelId = last.response.channelId
            /\ item.timestamp = last.response.comments[k].timestamp]

\* the places of the page whose record holds the field
Holding(page, field) == {k \in 1..Len(page) : page[k][field] # <<>>}

\* the descriptive field as the response carries it: '' and, for the
\* profile picture, null stand for an empty field
Carried(response, field) ==
    IF field # "profilePicture" THEN response[field]
    ELSE IF response.profilePicture = Null THEN <<>>
    ELSE response.profilePicture.s

\* C26: in the summary of a GET /profile whose page holds a record, each of
\* channelTitle, thumbnailUrl, description and profilePicture is that of the
\* first record of the page, in the page's order, that holds the field, and
\* is empty exactly when no record of the page holds it.
C26_FieldsBackfilledIndependently ==
    /\ last.handler = "GET /profile"
    /\ last.response.statusCode = 200
    /\ last.response.comments # <<>>
    => LET page == PageRecords
       IN \A field \in DescriptiveFields :
             LET holding == Holding(page, field)
                 first == CHOOSE k \in holding : \A j \in holding : k <= j
             IN IF holding = {} THEN Carried(last.response, field) = <<>>
                ELSE Carried(last.response, field) = page[first][field]

\* a summary of a page of two records or more whose title comes from the
\* first record of the page and whose thumbnail from a later one, while no
\* record of the page holds a description
C26_Witness ==
    /\ last.handler = "GET /profile"
    /\ Len(last.response.comments) >= 2
    /\ LET page == PageRecords
       IN /\ last.response.channelTitle = page[1].channelTitle
          /\ page[1].channelTitle # <<>>
          /\ page[1].thumbnailUrl = <<>>
          /\ last.response.thumbnailUrl # <<>>
          /\ last.response.description = <<>>

\* C27 as the specification states it: in the answer of GET /top-creators
\* a creator's channelTitle (thumbnailUrl) is non-empty whenever a scanned
\* record of the creator holds a non-empty channelTitle (thumbnailUrl).
C27_AsStated ==
    TopCreatorsAnswered =>
        LET scanned == Scanned
        IN \A k \in 1..Len(last.response.creators) :
              \A field \in {"channelTitle", "thumbnailUrl"} :
                 (\E j \in 1..Len(scanned) :
                     /\ scanned[j].channelId = last.response.creators[k].channelId
                     /\ scanned[j][field] # <<>>)
                 => last.response.creators[k][field] # <<>>

(***************************************************************************)
(* Properties of the fake-marker check.                                    *)
(***************************************************************************)
\* the part of the domain before its first '.'
RootLabel(email) == SplitFirst(EmailDomain(email), ".")

\* the root label, its digits removed, is one of the markers
IsMarker(email) == StripDigits(RootLabel(email)) \in fakeDomainPatterns

\* the root label holds a marker and more
HoldsMarker(email) ==
    /\ ~IsMarker(email)
    /\ \E pattern \in fakeDomainPatterns : Includes(RootLabel(email), pattern)

\* C28 as the specification states it: a submission whose e-mail address
\* has a valid shape is refused by the fake-marker check exactly when the
\* root label of its domain, digits removed, is a marker; a domain whose
\* root label only contains a marker, and which is allow-listed or ends
\* with an educational suffix, is accepted.
C28_AsStated ==
    /\ last.handler = "POST /ratings"
    /\ last.request.body.kind = "object"
    /\ Truthy(last.request.body.channelId)
    /\ IsNumberIn1To5(last.request.body.rating)
    /\ Truthy(last.request.body.email)
    /\ EmailRegexTest(last.request.body.email.s)
    => LET email == last.request.body.email.s
           emailDomain == EmailDomain(email)
       IN /\ IsMarker(email) => Rejects(last.response, "Invalid email domain")
          /\ /\ HoldsMarker(email)
             /\ \/ isAllowedConsumerDomain(emailDomain)
                \/ isAllowedCompanyDomain(emailDomain)
                \/ isEducationalDomain(emailDomain)
             => ~Rejects(last.response, "Invalid email domain")

(***************************************************************************)
(* Properties of the duplicate guard.                                      *)
(***************************************************************************)
\* C29: a well-formed submission is answered 400 'already rated' exactly
\* when it carries an e-mail address and the store holds a record of its
\* channel with the same address, character for character; an address that
\* differs from the stored ones in letter case only is no duplicate, and a
\* submission without e-mail address is never answered 'already rated'.
C29_DuplicateByExactAddress ==
    [][PostStep /\ WellFormed(last'.request) =>
        LET channelId == last'.request.body.channelId.s
            email == last'.request.body.email
        IN AlreadyRated(last'.response) <=>
              /\ Truthy(email)
              /\ RecordsOfEmail(store, channelId, email.s) # {}]_vars

\* a@Gmail.COM was accepted for a channel that a@gmail.com had rated: the
\* store holds a record of each
C29_Witness ==
    /\ last.handler = "POST /ratings"
    /\ last.request.body.email = Str(aGmailCaps)
    /\ last.response.statusCode = 201
    /\ RecordsOfEmail(store, c1, aGmail) # {}
    /\ RecordsOfEmail(store, c1, aGmailCaps) # {}

(***************************************************************************)
(* Properties of GET /profile when a call fails.                           *)
(***************************************************************************)
\* C30: a GET /profile with a channelId and an API key is answered 200
\* whenever its store query succeeds, however the channels call ended: the
\* answer carries the outcome of the channels call in channelInfo ('error'
\* when the call failed, 'not_found' when it returned no item) and the
\* ratings read from the store; it is answered 500 when the store query
\* fails.
C30_UpstreamFailureIsNotFatal ==
    [][\A channelId \in ChannelInputs, env \in Envs, queryFails \in BOOLEAN :
          /\ env.apiKey
          /\ last'.request = ProfileParams(channelId, Undef, Undef)
          /\ LoggedGetProfile(ProfileParams(channelId, Undef, Undef), env, queryFails)
          => IF queryFails
             THEN /\ last'.response.statusCode = 500
                  /\ last'.response.error = "Error processing request"
             ELSE /\ last'.response.statusCode = 200
                  /\ last'.response.channelInfo = env.youtube
                  /\ last'.response.totalRatings = RatingCount(channelId.s)
                  /\ last'.response.comments = NewestFirst(channelId.s)]_vars

\* a GET /profile whose channels call failed was answered 200 with the
\* ratings of the channel
C30_Witness ==
    /\ last.handler = "GET /profile"
    /\ last.response.statusCode = 200
    /\ last.response.channelInfo = "error"
    /\ last.response.totalRatings >= 2
    /\ calls = <<"youtube.channels", "dynamodb.query">>

====
